---------------------------- MODULE TrunkFraming ----------------------------
(***************************************************************************)
(* One direction of a trunk connection, from the messages one end writes   *)
(* to the messages data_received of TrunkingClient or TrunkingServer hands *)
(* over at the other: protocol.py, crypto.py and the input buffer.         *)
(*                                                                         *)
(* TCP carries a stream of bytes and cuts it anywhere; asyncio calls       *)
(* data_received with each piece. A BER encoded message is its length, its *)
(* protocol version and its payload, one byte each for the first two. A    *)
(* byte has a value and the secret it is readable with, NoSecret for all.  *)
(* AES-CBC is what the code needs of it: bytes decrypted with another      *)
(* secret than they were encrypted with, or not encrypted at all, are      *)
(* garbage, and garbage is no BER encoded message.                         *)
(*                                                                         *)
(* data_received is one callback, modelled as its first statement and one  *)
(* step per pass of its loop: only the peer writes in between, to the far  *)
(* end of the stream.                                                      *)
(*                                                                         *)
(* An operator marked "mutant" is a plausible bug in the operator defined  *)
(* after it; nothing uses it here.                                         *)
(***************************************************************************)
EXTENDS Integers, Sequences

CONSTANTS
    Messages,          \* payloads: non-empty sequences of byte values
    Secrets,
    NoSecret,          \* trunk without trunk-crypto-key
    Versions,
    PROTOCOL_VERSION,  \* the version of this end
    BS,                \* block size of the cipher, 16
    MaxPending,        \* reads without a whole message that are let pass: 5
    MaxSent            \* bound on the messages written

ASSUME MessagesAssumption == Messages \subseteq Seq(Nat) \ {<<>>}
ASSUME SecretsAssumption == NoSecret \notin Secrets
ASSUME VersionsAssumption == Versions \subseteq Nat /\ PROTOCOL_VERSION \in Versions
ASSUME BlockAssumption == BS \in Nat \ {0}
ASSUME LimitsAssumption == MaxPending \in Nat /\ MaxSent \in Nat

VARIABLES
    peer,            \* version and secret of the end that writes
    secret,          \* __secret
    stream,          \* all bytes written so far
    arrived,         \* how many of them data_received was called with
    input,           \* __input
    pendingCounter,  \* __pendingCounter
    transport,       \* "open", "closing" or "down"
    pc,              \* "loop" inside data_received, else "idle"
    sent,            \* ghost: the messages written, and where in the stream
    delivered,       \* ghost: the messages handed over
    pieces,          \* ghost: data_received calls that brought bytes of the next message
    reason           \* ghost: why this end closed

receiver == <<input, pendingCounter, transport, pc>>
vars == <<peer, secret, stream, arrived, receiver, sent, delivered, pieces, reason>>

Byte == [key : Secrets \cup {NoSecret}, val : Nat]
Reasons == {"none", "incomplete", "version", "garbage", "handler", "lost"}

TypeOK ==
    /\ peer \in [version : Versions, secret : Secrets \cup {NoSecret}]
    /\ secret \in Secrets \cup {NoSecret}
    /\ stream \in Seq(Byte)
    /\ arrived \in 0..Len(stream)
    /\ input \in Seq(Byte)
    /\ pendingCounter \in 0..(MaxPending + 1)
    /\ transport \in {"open", "closing", "down"}
    /\ pc \in {"idle", "loop"}
    /\ sent \in Seq([msg : Messages, at : Nat])
    /\ delivered \in Seq(Messages)
    /\ pieces \in Nat
    /\ reason \in Reasons

-----------------------------------------------------------------------------
(* crypto.py: pad appends n bytes of value n, 1 <= n <= BS; unpad cuts off *)
(* as many bytes as the last one says.                                     *)
PadUnlessAligned(s) ==     \* mutant: an aligned text is not padded
    LET n == (BS - (Len(s) % BS)) % BS
    IN s \o [i \in 1..n |-> n]
Pad(s) == LET n == BS - (Len(s) % BS)
          IN s \o [i \in 1..n |-> n]

Unpad(s) == SubSeq(s, 1, Len(s) - s[Len(s)])

Readable(key, values) == [i \in DOMAIN values |-> [key |-> key, val |-> values[i]]]
Values(bytes) == [i \in DOMAIN bytes |-> bytes[i].val]
ReadableWith(key, bytes) == \A i \in DOMAIN bytes : bytes[i].key = key

(* The initialization vector is one block anybody can read.                *)
Iv == [i \in 1..BS |-> [key |-> NoSecret, val |-> 0]]

Encrypt(key, raw) == Iv \o Readable(key, Pad(raw))
Encrypted(bytes) == SubSeq(bytes, BS + 1, Len(bytes))

-----------------------------------------------------------------------------
(* protocol.py: prepareRequestData, prepareResponseData and so on, and     *)
(* prepareDataElements.                                                    *)
Payload(key, m) == IF key # NoSecret THEN Encrypt(key, m) ELSE Readable(NoSecret, m)

Encode(from, m) ==
    LET payload == Payload(from.secret, m)
    IN Readable(NoSecret, <<Len(payload) + 1, from.version>>) \o payload

(* The decoder raises SubstrateUnderrunError unless the whole message is   *)
(* there.                                                                  *)
Complete(octets) == octets # <<>> /\ octets[1].val < Len(octets)

(* A version, and a payload that is not empty.                             *)
WellFormed(octets) == octets[1].val > 1
VersionOf(octets) == octets[2].val
PayloadOf(octets) == SubSeq(octets, 3, octets[1].val + 1)

NothingLeft(octets) == <<>>   \* mutant: the buffer is emptied with each message
RestTooLong(octets) ==        \* mutant: the length itself is not counted
    SubSeq(octets, octets[1].val + 1, Len(octets))
Rest(octets) == SubSeq(octets, octets[1].val + 2, Len(octets))

(* The payload opens with the secret of this end. Decrypting nothing but   *)
(* the initialization vector finds no padding to cut off and raises.       *)
AnySecret(octets) ==   \* mutant: whatever can be decrypted passes
    \/ ReadableWith(NoSecret, PayloadOf(octets))
    \/ Encrypted(PayloadOf(octets)) # <<>>
Decodable(octets) ==
    IF secret # NoSecret
    THEN LET text == Encrypted(PayloadOf(octets))
         IN text # <<>> /\ ReadableWith(secret, text)
    ELSE ReadableWith(NoSecret, PayloadOf(octets))

Decode(octets) ==
    IF secret # NoSecret
    THEN Unpad(Values(Encrypted(PayloadOf(octets))))
    ELSE Values(PayloadOf(octets))

(* decrypt() or payload: the last byte of garbage may cut off all of it,   *)
(* and then the payload is taken as it came, if whole blocks could be      *)
(* decrypted at all.                                                       *)
FallsBack(octets) ==
    LET text == Encrypted(PayloadOf(octets))
    IN /\ secret # NoSecret /\ ~Decodable(octets)
       /\ text # <<>> /\ Len(text) % BS = 0
       /\ ReadableWith(NoSecret, PayloadOf(octets))

-----------------------------------------------------------------------------
Init ==
    /\ peer \in [version : Versions, secret : Secrets \cup {NoSecret}]
    /\ secret \in Secrets \cup {NoSecret}
    /\ stream = <<>>
    /\ arrived = 0
    /\ input = <<>>
    /\ pendingCounter = 0
    /\ transport = "open"
    /\ pc = "idle"
    /\ sent = <<>>
    /\ delivered = <<>>
    /\ pieces = 0
    /\ reason = "none"

(* The peer's sendReq, sendRsp, sendPing, sendAnnouncement: one            *)
(* transport.write of the encoded message.                                 *)
Write(m) ==
    /\ Len(sent) < MaxSent
    /\ stream' = stream \o Encode(peer, m)
    /\ sent' = Append(sent, [msg |-> m, at |-> Len(stream)])
    /\ UNCHANGED <<peer, secret, arrived, receiver, delivered, pieces, reason>>

(* data_received is called with the next n bytes.                          *)
DataReceived(n) ==
    /\ transport = "open" /\ pc = "idle"
    /\ arrived' = arrived + n
    /\ input' = input \o SubSeq(stream, arrived + 1, arrived + n)
    /\ pieces' = pieces + 1
    /\ pc' = "loop"
    /\ UNCHANGED <<peer, secret, stream, pendingCounter, transport, sent, delivered, reason>>

(* close(), or an exception that leaves data_received, upon which asyncio  *)
(* closes the transport: no further call either way.                       *)
CloseFor(why) ==
    /\ transport' = "closing"
    /\ reason' = IF transport = "open" THEN why ELSE reason

(* while self.__input: nothing is left.                                    *)
Exhausted ==
    /\ input = <<>>
    /\ pc' = "idle"
    /\ UNCHANGED <<input, pendingCounter, transport, delivered, pieces, reason>>

(* The next message is not whole yet.                                      *)
Incomplete ==
    /\ input # <<>> /\ ~Complete(input)
    /\ IF pendingCounter > MaxPending
       THEN CloseFor("incomplete") /\ UNCHANGED pendingCounter
       ELSE pendingCounter' = pendingCounter + 1 /\ UNCHANGED <<transport, reason>>
    /\ pc' = "idle"
    /\ UNCHANGED <<input, delivered, pieces>>

(* SnmpfwdError for the version; PyAsn1Error, which data_received does not *)
(* catch, for a message or a payload that does not decode.                 *)
WrongVersion(octets) == WellFormed(octets) /\ VersionOf(octets) # PROTOCOL_VERSION
Garbage(octets) ==
    ~WellFormed(octets) \/ (~WrongVersion(octets) /\ ~Decodable(octets))

Undecodable ==
    /\ Complete(input)
    /\ \/ WrongVersion(input) /\ CloseFor("version")
       \/ Garbage(input) /\ CloseFor("garbage")
    /\ pc' = "idle"
    /\ UNCHANGED <<input, pendingCounter, delivered, pieces>>

(* A message is handed to its handler, which returns, closes the           *)
(* connection and returns (a refused announcement), or raises. After a     *)
(* close the loop goes on with the messages that were read with it.        *)
Handled == UNCHANGED <<transport, reason>> /\ pc' = "loop"
HandledAndClosed == CloseFor("handler") /\ pc' = "loop"
HandlerRaised == CloseFor("handler") /\ pc' = "idle"

CounterKept == pendingCounter' = pendingCounter   \* mutant: the count goes on with the next message
CounterReset == pendingCounter' = 0

Deliver ==
    /\ Complete(input) /\ WellFormed(input) /\ ~WrongVersion(input)
    /\ \/ Decodable(input) /\ delivered' = Append(delivered, Decode(input))
       \/ FallsBack(input) /\ delivered' = Append(delivered, Values(PayloadOf(input)))
    /\ input' = Rest(input)
    /\ CounterReset
    /\ pieces' = IF input' = <<>> THEN 0 ELSE 1
    /\ Handled \/ HandledAndClosed \/ HandlerRaised

(* One pass of the loop of data_received.                                  *)
Pass ==
    /\ pc = "loop"
    /\ Exhausted \/ Incomplete \/ Undecodable \/ Deliver
    /\ UNCHANGED <<peer, secret, stream, arrived, sent>>

(* connection_lost: the end of a closing transport, or the connection      *)
(* breaks.                                                                 *)
ConnectionLost ==
    /\ pc = "idle" /\ transport # "down"
    /\ transport' = "down"
    /\ reason' = IF transport = "open" THEN "lost" ELSE reason
    /\ UNCHANGED <<peer, secret, stream, arrived, input, pendingCounter, pc,
                   sent, delivered, pieces>>

Next == \/ \E m \in Messages : Write(m)
        \/ \E n \in 1..(Len(stream) - arrived) : DataReceived(n)
        \/ Pass
        \/ ConnectionLost

Spec == Init /\ [][Next]_vars

-----------------------------------------------------------------------------
(* Safety.                                                                 *)

(* However TCP cuts the stream, messages are handed over whole, in the     *)
(* order they were written, none twice and none left out.                  *)
InOrder ==
    /\ Len(delivered) <= Len(sent)
    /\ \A i \in DOMAIN delivered : delivered[i] = sent[i].msg

(* Two ends of one protocol version and one secret understand each other,  *)
(* whatever the length of a message is to the block size; of a peer with   *)
(* another version or another secret nothing is handed over. (Of a peer    *)
(* without a secret it may be, by FallsBack.)                              *)
Equal == peer = [version |-> PROTOCOL_VERSION, secret |-> secret]
EqualPeersUnderstand ==
    /\ delivered # <<>> =>
           peer.version = PROTOCOL_VERSION /\ peer.secret \in {secret, NoSecret}
    /\ reason \in {"version", "garbage"} => ~Equal

(* Between calls, __pendingCounter is the number of pieces the message in  *)
(* the buffer has come in, however messages and pieces overlap: a          *)
(* connection is closed as "incomplete for too long" only when one message *)
(* has come in more than MaxPending + 1 pieces and still is not whole,     *)
(* and a message that comes in fewer is never lost to the limit.           *)
CountsPieces ==
    /\ transport = "open" /\ pc = "idle" => pendingCounter = pieces
    /\ reason = "incomplete" => pieces > MaxPending + 1

(* The messages of a connection are a FIFO that breaks at most once.       *)
Channel == INSTANCE TrunkChannel
    WITH sent <- [i \in DOMAIN sent |-> sent[i].msg],
         unbroken <- (transport = "open" \/ pc = "loop")
ChannelSpec == Channel!Spec

-----------------------------------------------------------------------------
(* The strengthening that makes InOrder inductive. In the stream, the      *)
(* encoded messages follow each other without a gap.                       *)
EndOf(i) == sent[i].at + Len(Encode(peer, sent[i].msg))

Written ==
    /\ \A i \in DOMAIN sent :
           /\ sent[i].at = IF i = 1 THEN 0 ELSE EndOf(i - 1)
           /\ \A k \in 1..Len(Encode(peer, sent[i].msg)) :
                  stream[sent[i].at + k] = Encode(peer, sent[i].msg)[k]
           /\ EndOf(i) <= Len(stream)
    /\ Len(stream) = IF sent = <<>> THEN 0 ELSE EndOf(Len(sent))

(* Where the next message to hand over begins, and that the buffer holds   *)
(* what has arrived from there on.                                         *)
NextAt == IF delivered = <<>> THEN 0 ELSE EndOf(Len(delivered))

Buffered ==
    /\ NextAt <= arrived
    /\ Len(input) = arrived - NextAt
    /\ \A k \in 1..Len(input) : input[k] = stream[NextAt + k]

IInv == TypeOK /\ InOrder /\ Written /\ Buffered

-----------------------------------------------------------------------------
(* Liveness.                                                               *)

(* Bytes written arrive while the connection is up, and the loop runs.     *)
Fairness == /\ WF_vars(\E n \in 1..(Len(stream) - arrived) : DataReceived(n))
            /\ WF_vars(Pass)

FairSpec == Spec /\ Fairness

(* Every message written is handed over, unless the connection ends, and   *)
(* it ends by itself only for a message in too many pieces, a peer that is *)
(* not equal, or a handler.                                                *)
EveryMessageArrives ==
    \A n \in 1..MaxSent : Len(sent) >= n ~> Len(delivered) >= n \/ transport # "open"
=============================================================================
