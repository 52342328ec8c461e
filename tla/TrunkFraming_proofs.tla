------------------------- MODULE TrunkFraming_proofs -------------------------
(***************************************************************************)
(* Proofs about TrunkFraming, for all messages, secrets and block sizes:   *)
(* what was encoded decodes to itself, messages are handed over in order   *)
(* however the stream is cut, and the connection is a TrunkChannel.        *)
(***************************************************************************)
EXTENDS TrunkFraming, TLAPS

Keys == Secrets \cup {NoSecret}

-----------------------------------------------------------------------------
(* Sequences, element by element.                                          *)

LEMMA Joined ==
    ASSUME NEW S, NEW s \in Seq(S), NEW t \in Seq(S)
    PROVE  /\ s \o t \in Seq(S)
           /\ Len(s \o t) = Len(s) + Len(t)
           /\ \A i \in 1..Len(s) : (s \o t)[i] = s[i]
           /\ \A i \in 1..Len(t) : (s \o t)[Len(s) + i] = t[i]
    OBVIOUS

LEMMA Part ==
    ASSUME NEW S, NEW s \in Seq(S), NEW m \in Nat, NEW n \in Nat, m <= n, n <= Len(s)
    PROVE  /\ SubSeq(s, m + 1, n) \in Seq(S)
           /\ Len(SubSeq(s, m + 1, n)) = n - m
           /\ \A i \in 1..(n - m) : SubSeq(s, m + 1, n)[i] = s[m + i]
    OBVIOUS

LEMMA FromThird ==
    ASSUME NEW S, NEW s \in Seq(S), NEW n \in Nat, 2 <= n, n <= Len(s)
    PROVE  /\ SubSeq(s, 3, n) \in Seq(S)
           /\ Len(SubSeq(s, 3, n)) = n - 2
           /\ \A i \in 1..(n - 2) : SubSeq(s, 3, n)[i] = s[2 + i]
    OBVIOUS

LEMMA SameSequence ==
    ASSUME NEW S, NEW s \in Seq(S), NEW t \in Seq(S), Len(s) = Len(t),
           \A i \in 1..Len(s) : s[i] = t[i]
    PROVE  s = t
    OBVIOUS

LEMMA Built ==
    ASSUME NEW S, NEW n \in Nat, NEW f \in [1..n -> S]
    PROVE  f \in Seq(S) /\ Len(f) = n
    OBVIOUS

LEMMA Element ==
    ASSUME NEW S, NEW s \in Seq(S), NEW i \in 1..Len(s)
    PROVE  s[i] \in S
    OBVIOUS

-----------------------------------------------------------------------------
(* crypto.py.                                                              *)

(* Any text can be padded and unpadded again.                              *)
LEMMA PadRoundTrip ==
    ASSUME NEW s \in Seq(Nat)
    PROVE  /\ Pad(s) \in Seq(Nat) /\ Len(Pad(s)) > Len(s)
           /\ Unpad(Pad(s)) = s
<1> DEFINE n == BS - (Len(s) % BS)
           tail == [i \in 1..n |-> n]
<1>1. n \in 1..BS
  <2>1. Len(s) \in Nat
    OBVIOUS
  <2>2. Len(s) % BS \in 0..(BS - 1)
    BY <2>1, BlockAssumption
  <2> QED BY <2>2, BlockAssumption
<1>2. tail \in Seq(Nat) /\ Len(tail) = n /\ \A i \in 1..n : tail[i] = n
    BY <1>1, BlockAssumption
<1> HIDE DEF n, tail
<1>3. Pad(s) = s \o tail
    BY DEF Pad, n, tail
<1>4. /\ Pad(s) \in Seq(Nat) /\ Len(Pad(s)) = Len(s) + n
      /\ \A i \in 1..Len(s) : Pad(s)[i] = s[i]
      /\ Pad(s)[Len(s) + n] = n
  <2>1. /\ s \o tail \in Seq(Nat)
        /\ Len(s \o tail) = Len(s) + Len(tail)
        /\ \A i \in 1..Len(s) : (s \o tail)[i] = s[i]
        /\ \A i \in 1..Len(tail) : (s \o tail)[Len(s) + i] = tail[i]
    <3>1. tail \in Seq(Nat)
      BY <1>2
    <3> QED BY <3>1, Joined
  <2>2. n \in 1..Len(tail) /\ tail[n] = n
    BY <1>1, <1>2
  <2> QED BY <1>2, <1>3, <2>1, <2>2
<1>5. Unpad(Pad(s)) = SubSeq(Pad(s), 1, Len(s))
    BY <1>1, <1>4, BlockAssumption DEF Unpad
<1>6. SubSeq(Pad(s), 1, Len(s)) = s
  <2>1. /\ SubSeq(Pad(s), 0 + 1, Len(s)) \in Seq(Nat)
        /\ Len(SubSeq(Pad(s), 0 + 1, Len(s))) = Len(s) - 0
        /\ \A i \in 1..(Len(s) - 0) : SubSeq(Pad(s), 0 + 1, Len(s))[i] = Pad(s)[0 + i]
    BY <1>1, <1>4, Part, BlockAssumption
  <2> QED BY <2>1, <1>4, SameSequence
<1> QED BY <1>1, <1>4, <1>5, <1>6, BlockAssumption

LEMMA ReadableTypes ==
    ASSUME NEW key \in Keys, NEW values \in Seq(Nat)
    PROVE  /\ Readable(key, values) \in Seq(Byte)
           /\ Len(Readable(key, values)) = Len(values)
           /\ \A i \in 1..Len(values) : Readable(key, values)[i] = [key |-> key, val |-> values[i]]
           /\ ReadableWith(key, Readable(key, values))
           /\ Values(Readable(key, values)) = values
<1>1. /\ Readable(key, values) \in Seq(Byte)
      /\ Len(Readable(key, values)) = Len(values)
      /\ \A i \in 1..Len(values) : Readable(key, values)[i] = [key |-> key, val |-> values[i]]
  <2>1. DOMAIN values = 1..Len(values) /\ \A i \in 1..Len(values) : values[i] \in Nat
    BY Element
  <2>2. Readable(key, values) \in [1..Len(values) -> Byte]
    BY <2>1 DEF Readable, Byte, Keys
  <2> QED BY <2>1, <2>2, Built DEF Readable
<1>2. ReadableWith(key, Readable(key, values))
  <2>1. DOMAIN Readable(key, values) = 1..Len(values)
    BY <1>1
  <2> QED BY <1>1, <2>1 DEF ReadableWith
<1>3. Values(Readable(key, values)) = values
  <2>1. /\ Values(Readable(key, values)) \in Seq(Nat)
        /\ Len(Values(Readable(key, values))) = Len(values)
        /\ \A i \in 1..Len(values) : Values(Readable(key, values))[i] = values[i]
    <3>1. DOMAIN Readable(key, values) = 1..Len(values)
      BY <1>1
    <3>2. \A i \in 1..Len(values) : values[i] \in Nat
      BY Element
    <3>3. Values(Readable(key, values)) \in [1..Len(values) -> Nat]
      BY <1>1, <3>1, <3>2 DEF Values
    <3> QED BY <1>1, <3>1, <3>3, Built DEF Values
  <2> QED BY <2>1, SameSequence
<1> QED BY <1>1, <1>2, <1>3

LEMMA IvTypes == Iv \in Seq(Byte) /\ Len(Iv) = BS
<1>1. Iv \in [1..BS -> Byte]
    BY BlockAssumption DEF Iv, Byte
<1> QED BY <1>1, Built, BlockAssumption

(* A payload is not empty, is readable as the peer's secret says, and      *)
(* opens with the same secret.                                             *)
Opens(key, payload, m) ==
    IF key # NoSecret
    THEN /\ Encrypted(payload) # <<>>
         /\ ReadableWith(key, Encrypted(payload))
         /\ Unpad(Values(Encrypted(payload))) = m
    ELSE ReadableWith(NoSecret, payload) /\ Values(payload) = m

LEMMA PayloadTypes ==
    ASSUME NEW key \in Keys, NEW m \in Messages
    PROVE  /\ Payload(key, m) \in Seq(Byte) /\ Len(Payload(key, m)) > 0
           /\ Opens(key, Payload(key, m), m)
           /\ key # NoSecret =>
                  \E i \in 1..Len(Payload(key, m)) : Payload(key, m)[i].key = key
           /\ key # NoSecret =>
                  \A i \in 1..Len(Encrypted(Payload(key, m))) :
                      Encrypted(Payload(key, m))[i].key = key
<1>1. m \in Seq(Nat) /\ m # <<>> /\ Len(m) > 0
  <2>1. m \in Seq(Nat) /\ m # <<>>
    BY MessagesAssumption
  <2> QED BY <2>1
<1>2. CASE key = NoSecret
  <2>1. Payload(key, m) = Readable(NoSecret, m)
    BY <1>2 DEF Payload
  <2> QED BY <1>1, <1>2, <2>1, ReadableTypes DEF Opens
<1>3. CASE key # NoSecret
  <2> DEFINE text == Readable(key, Pad(m))
  <2>1. /\ Pad(m) \in Seq(Nat) /\ Len(Pad(m)) > Len(m)
        /\ Unpad(Pad(m)) = m
    BY <1>1, PadRoundTrip
  <2>2. /\ text \in Seq(Byte) /\ Len(text) = Len(Pad(m)) /\ Len(text) > 0
        /\ \A i \in 1..Len(text) : text[i].key = key
        /\ ReadableWith(key, text) /\ Values(text) = Pad(m)
    <3>1. Pad(m) \in Seq(Nat)
      BY <2>1
    <3>2. /\ text \in Seq(Byte) /\ Len(text) = Len(Pad(m))
          /\ \A i \in 1..Len(Pad(m)) : text[i] = [key |-> key, val |-> Pad(m)[i]]
          /\ ReadableWith(key, text) /\ Values(text) = Pad(m)
      BY <3>1, ReadableTypes
    <3>3. Len(text) > 0
      <4>1. Len(m) \in Nat /\ Len(Pad(m)) \in Nat
        BY <1>1, <3>1
      <4> QED BY <2>1, <3>2, <4>1
    <3>4. \A i \in 1..Len(text) : text[i].key = key
      <4> HIDE DEF text
      <4>1. Len(text) = Len(Pad(m))
        BY <3>2
      <4>2. \A i \in 1..Len(Pad(m)) : text[i] = [key |-> key, val |-> Pad(m)[i]]
        BY <3>2
      <4>3. ASSUME NEW i \in 1..Len(text)
            PROVE  text[i].key = key
        <5>1. text[i] = [key |-> key, val |-> Pad(m)[i]]
          BY <4>1, <4>2
        <5>2. [key |-> key, val |-> Pad(m)[i]].key = key
          OBVIOUS
        <5> QED BY <5>1, <5>2
      <4> QED BY <4>3
    <3> QED BY <3>2, <3>3, <3>4
  <2>3. Payload(key, m) = Iv \o text
    BY <1>3 DEF Payload, Encrypt
  <2> HIDE DEF text
  <2>4. /\ Iv \o text \in Seq(Byte) /\ Len(Iv \o text) = BS + Len(text)
        /\ \A i \in 1..Len(text) : (Iv \o text)[BS + i] = text[i]
    <3>1. text \in Seq(Byte) /\ Iv \in Seq(Byte)
      BY <2>2, IvTypes
    <3>2. Len(Iv) = BS
      BY IvTypes
    <3>3. /\ Iv \o text \in Seq(Byte) /\ Len(Iv \o text) = Len(Iv) + Len(text)
          /\ \A i \in 1..Len(text) : (Iv \o text)[Len(Iv) + i] = text[i]
      BY <3>1, Joined
    <3> QED BY <3>2, <3>3
  <2>5. Encrypted(Iv \o text) = text
    <3>1. /\ SubSeq(Iv \o text, BS + 1, BS + Len(text)) \in Seq(Byte)
          /\ Len(SubSeq(Iv \o text, BS + 1, BS + Len(text))) = Len(text)
          /\ \A i \in 1..Len(text) :
                 SubSeq(Iv \o text, BS + 1, BS + Len(text))[i] = (Iv \o text)[BS + i]
      BY <2>2, <2>4, Part, BlockAssumption
    <3> QED BY <2>2, <2>4, <3>1, SameSequence DEF Encrypted
  <2>6. \E i \in 1..Len(Iv \o text) : (Iv \o text)[i].key = key
    BY <2>2, <2>4, BlockAssumption
  <2>7. text # <<>>
    BY <2>2
  <2> QED BY <1>3, <2>1, <2>2, <2>3, <2>4, <2>5, <2>6, <2>7, BlockAssumption DEF Opens
<1> QED BY <1>2, <1>3

-----------------------------------------------------------------------------
(* protocol.py.                                                            *)

Peers == [version : Versions, secret : Keys]

LEMMA EncodeTypes ==
    ASSUME NEW from \in Peers, NEW m \in Messages
    PROVE  LET code == Encode(from, m)
               payload == Payload(from.secret, m)
           IN /\ code \in Seq(Byte)
              /\ Len(code) = Len(payload) + 2 /\ Len(code) > 2
              /\ code[1] = [key |-> NoSecret, val |-> Len(payload) + 1]
              /\ code[2] = [key |-> NoSecret, val |-> from.version]
              /\ \A i \in 1..Len(payload) : code[2 + i] = payload[i]
<1> DEFINE payload == Payload(from.secret, m)
           head == Readable(NoSecret, <<Len(payload) + 1, from.version>>)
<1>1. from.secret \in Keys /\ from.version \in Nat
    BY VersionsAssumption DEF Peers
<1>2. payload \in Seq(Byte) /\ Len(payload) > 0
    BY <1>1, PayloadTypes
<1>3. Encode(from, m) = head \o payload
    BY DEF Encode
<1>4. <<Len(payload) + 1, from.version>> \in Seq(Nat)
    BY <1>1, <1>2
<1>5. /\ head \in Seq(Byte) /\ Len(head) = 2
      /\ head[1] = [key |-> NoSecret, val |-> Len(payload) + 1]
      /\ head[2] = [key |-> NoSecret, val |-> from.version]
  <2> DEFINE pair == <<Len(payload) + 1, from.version>>
  <2>1. NoSecret \in Keys /\ Len(pair) = 2 /\ pair[1] = Len(payload) + 1 /\ pair[2] = from.version
    BY DEF Keys
  <2>2. pair \in Seq(Nat)
    BY <1>4
  <2> HIDE DEF pair
  <2>3. /\ Readable(NoSecret, pair) \in Seq(Byte) /\ Len(Readable(NoSecret, pair)) = Len(pair)
        /\ \A i \in 1..Len(pair) :
               Readable(NoSecret, pair)[i] = [key |-> NoSecret, val |-> pair[i]]
    BY <2>1, <2>2, ReadableTypes
  <2>4. head = Readable(NoSecret, pair)
    BY DEF pair
  <2>5. 1 \in 1..Len(pair) /\ 2 \in 1..Len(pair)
    BY <2>1
  <2> HIDE DEF head
  <2> QED BY <2>1, <2>3, <2>4, <2>5
<1> HIDE DEF head, payload
<1>6. /\ head \o payload \in Seq(Byte) /\ Len(head \o payload) = 2 + Len(payload)
      /\ (head \o payload)[1] = head[1] /\ (head \o payload)[2] = head[2]
      /\ \A i \in 1..Len(payload) : (head \o payload)[2 + i] = payload[i]
  <2>1. head \in Seq(Byte) /\ payload \in Seq(Byte)
    BY <1>2, <1>5
  <2>2. /\ head \o payload \in Seq(Byte)
        /\ Len(head \o payload) = Len(head) + Len(payload)
        /\ \A i \in 1..Len(head) : (head \o payload)[i] = head[i]
        /\ \A i \in 1..Len(payload) : (head \o payload)[Len(head) + i] = payload[i]
    BY <2>1, Joined
  <2> QED BY <1>5, <2>2
<1>7. Len(payload) + 2 > 2
    BY <1>2
<1> QED BY <1>2, <1>3, <1>5, <1>6, <1>7 DEF payload

(* Who can read a payload: an end with the same secret, and nobody else.   *)
CanRead(own, payload) ==
    IF own # NoSecret
    THEN Encrypted(payload) # <<>> /\ ReadableWith(own, Encrypted(payload))
    ELSE ReadableWith(NoSecret, payload)
Read(own, payload) ==
    IF own # NoSecret THEN Unpad(Values(Encrypted(payload))) ELSE Values(payload)

LEMMA Understood ==
    ASSUME NEW own \in Keys, NEW key \in Keys, NEW m \in Messages
    PROVE  /\ CanRead(own, Payload(key, m)) <=> own = key
           /\ own = key => Read(own, Payload(key, m)) = m
<1> DEFINE payload == Payload(key, m)
<1>1. /\ payload \in Seq(Byte) /\ Len(payload) > 0
      /\ Opens(key, payload, m)
      /\ key # NoSecret => \E i \in 1..Len(payload) : payload[i].key = key
      /\ key # NoSecret =>
             \A i \in 1..Len(Encrypted(payload)) : Encrypted(payload)[i].key = key
    BY PayloadTypes
<1> HIDE DEF payload
<1>2. CASE own = key
    BY <1>1, <1>2 DEF CanRead, Read, Opens, payload
<1>3. CASE own # key /\ own = NoSecret
  <2>1. PICK i \in 1..Len(payload) : payload[i].key = key
    BY <1>1, <1>3
  <2>2. i \in DOMAIN payload
    BY <1>1, <2>1
  <2> QED BY <1>3, <2>1, <2>2 DEF CanRead, ReadableWith, payload
<1>4. CASE own # key /\ own # NoSecret
  <2>1. Encrypted(payload) \in Seq(Byte)
    BY <1>1, BlockAssumption DEF Encrypted
  <2>2. \A i \in 1..Len(Encrypted(payload)) : Encrypted(payload)[i].key = key
    <3>1. CASE key # NoSecret
      BY <1>1, <3>1
    <3>2. CASE key = NoSecret
      <4>1. ReadableWith(NoSecret, payload)
        BY <1>1, <3>2 DEF Opens
      <4>2. \A i \in 1..Len(payload) : payload[i].key = NoSecret
        BY <1>1, <4>1 DEF ReadableWith
      <4>3. \A i \in 1..Len(Encrypted(payload)) :
                BS + i \in 1..Len(payload) /\ Encrypted(payload)[i] = payload[BS + i]
        BY <1>1, BlockAssumption DEF Encrypted
      <4> QED BY <3>2, <4>2, <4>3
    <3> QED BY <3>1, <3>2
  <2>3. SUFFICES ASSUME Encrypted(payload) # <<>>, ReadableWith(own, Encrypted(payload))
                 PROVE  FALSE
    BY <1>4 DEF CanRead, payload
  <2>4. 1 \in 1..Len(Encrypted(payload)) /\ 1 \in DOMAIN Encrypted(payload)
    BY <2>1, <2>3
  <2> QED BY <1>4, <2>2, <2>3, <2>4 DEF ReadableWith
<1> QED BY <1>2, <1>3, <1>4

(* What the receiver makes of a buffer that begins with a message, whole   *)
(* or not.                                                                 *)
LEMMA Decoding ==
    ASSUME NEW from \in Peers, NEW m \in Messages, NEW octets \in Seq(Byte),
           octets # <<>>, secret \in Keys,
           \A k \in 1..Len(octets) : k <= Len(Encode(from, m)) => octets[k] = Encode(from, m)[k]
    PROVE  /\ Complete(octets) <=> Len(octets) >= Len(Encode(from, m))
           /\ Complete(octets) =>
                /\ WellFormed(octets) /\ VersionOf(octets) = from.version
                /\ PayloadOf(octets) = Payload(from.secret, m)
                /\ Decodable(octets) <=> secret = from.secret
                /\ Decodable(octets) => Decode(octets) = m
                /\ Rest(octets) = SubSeq(octets, Len(Encode(from, m)) + 1, Len(octets))
<1> DEFINE code == Encode(from, m)
           payload == Payload(from.secret, m)
<1>1. from.secret \in Keys
    BY DEF Peers
<1>2. payload \in Seq(Byte) /\ Len(payload) > 0
    BY <1>1, PayloadTypes
<1>3. /\ code \in Seq(Byte)
      /\ Len(code) = Len(payload) + 2 /\ Len(code) > 2
      /\ code[1] = [key |-> NoSecret, val |-> Len(payload) + 1]
      /\ code[2] = [key |-> NoSecret, val |-> from.version]
      /\ \A i \in 1..Len(payload) : code[2 + i] = payload[i]
    BY EncodeTypes
<1>4. \A k \in 1..Len(octets) : k <= Len(code) => octets[k] = code[k]
    OBVIOUS
<1> HIDE DEF code, payload
<1>5. Len(octets) \in Nat /\ Len(octets) > 0 /\ Len(code) \in Nat /\ Len(payload) \in Nat
    BY <1>2, <1>3
<1>6. octets[1].val = Len(payload) + 1
  <2>1. octets[1] = code[1]
    BY <1>3, <1>4, <1>5
  <2>2. [key |-> NoSecret, val |-> Len(payload) + 1].val = Len(payload) + 1
    OBVIOUS
  <2> QED BY <1>3, <2>1, <2>2
<1>7. Complete(octets) <=> Len(octets) >= Len(code)
    BY <1>3, <1>5, <1>6 DEF Complete
<1>8. ASSUME Len(octets) >= Len(code)
      PROVE  /\ WellFormed(octets) /\ VersionOf(octets) = from.version
             /\ PayloadOf(octets) = payload
             /\ Rest(octets) = SubSeq(octets, Len(code) + 1, Len(octets))
  <2>1. WellFormed(octets)
    BY <1>2, <1>5, <1>6 DEF WellFormed
  <2>2. VersionOf(octets) = from.version
    <3>1. octets[2] = code[2]
      BY <1>3, <1>4, <1>5, <1>8
    <3>2. [key |-> NoSecret, val |-> from.version].val = from.version
      OBVIOUS
    <3> QED BY <1>3, <3>1, <3>2 DEF VersionOf
  <2>3. PayloadOf(octets) = payload
    <3>1. PayloadOf(octets) = SubSeq(octets, 3, Len(code))
      BY <1>3, <1>5, <1>6 DEF PayloadOf
    <3>2. /\ SubSeq(octets, 3, Len(code)) \in Seq(Byte)
          /\ Len(SubSeq(octets, 3, Len(code))) = Len(code) - 2
          /\ \A i \in 1..(Len(code) - 2) : SubSeq(octets, 3, Len(code))[i] = octets[2 + i]
      <4>1. Len(code) = Len(payload) + 2 /\ Len(code) <= Len(octets)
        BY <1>3, <1>5, <1>8
      <4>2. 2 \in Nat /\ Len(code) \in Nat /\ 2 <= Len(code)
        BY <1>5, <4>1
      <4>3. Len(code) <= Len(octets)
        BY <4>1
      <4> QED BY <4>2, <4>3, FromThird
    <3>3. \A i \in 1..Len(payload) : octets[2 + i] = payload[i]
      <4>1. Len(code) = Len(payload) + 2 /\ Len(code) <= Len(octets)
        BY <1>3, <1>5, <1>8
      <4>2. \A i \in 1..Len(payload) : 2 + i \in 1..Len(octets) /\ 2 + i <= Len(code)
        BY <1>5, <4>1
      <4>3. \A i \in 1..Len(payload) : octets[2 + i] = code[2 + i]
        BY <1>4, <4>2
      <4>4. \A i \in 1..Len(payload) : code[2 + i] = payload[i]
        BY <1>3
      <4> QED BY <4>3, <4>4
    <3>4. \A i \in 1..Len(payload) : SubSeq(octets, 3, Len(code))[i] = payload[i]
      BY <1>3, <1>5, <3>2, <3>3
    <3> QED BY <1>2, <1>3, <1>5, <3>1, <3>2, <3>4, SameSequence
  <2>4. Rest(octets) = SubSeq(octets, Len(code) + 1, Len(octets))
    BY <1>3, <1>5, <1>6 DEF Rest
  <2> QED BY <2>1, <2>2, <2>3, <2>4
<1>9. /\ CanRead(secret, payload) <=> secret = from.secret
      /\ secret = from.secret => Read(secret, payload) = m
    BY <1>1, Understood DEF payload
<1>10. ASSUME Len(octets) >= Len(code)
       PROVE  /\ Decodable(octets) <=> CanRead(secret, payload)
              /\ Decode(octets) = Read(secret, payload)
    BY <1>8, <1>10 DEF Decodable, Decode, CanRead, Read
<1> QED BY <1>7, <1>8, <1>9, <1>10 DEF code, payload

-----------------------------------------------------------------------------
(* The stream and the buffer.                                              *)

Code(i) == Encode(peer, sent[i].msg)

LEMMA CodeTypes ==
    ASSUME TypeOK, NEW i \in 1..Len(sent)
    PROVE  /\ peer \in Peers /\ sent[i].msg \in Messages /\ sent[i].at \in Nat
           /\ Code(i) \in Seq(Byte) /\ Len(Code(i)) \in Nat /\ Len(Code(i)) > 2
           /\ EndOf(i) = sent[i].at + Len(Code(i)) /\ EndOf(i) \in Nat
<1>1. peer \in Peers
    BY DEF TypeOK, Peers, Keys
<1>2. sent[i] \in [msg : Messages, at : Nat]
  <2>1. sent \in Seq([msg : Messages, at : Nat])
    BY DEF TypeOK
  <2> QED BY <2>1, Element
<1>3. sent[i].msg \in Messages /\ sent[i].at \in Nat
    BY <1>2
<1>4. Code(i) \in Seq(Byte) /\ Len(Code(i)) > 2
    BY <1>1, <1>3, EncodeTypes DEF Code
<1>5. EndOf(i) = sent[i].at + Len(Code(i))
    BY DEF EndOf, Code
<1> QED BY <1>1, <1>3, <1>4, <1>5

(* A buffer that is not empty begins with the next message to hand over.   *)
LEMMA NextInBuffer ==
    ASSUME IInv, input # <<>>
    PROVE  LET n == Len(delivered) + 1
           IN /\ n \in 1..Len(sent) /\ NextAt = sent[n].at
              /\ \A k \in 1..Len(input) : k <= Len(Code(n)) => input[k] = Code(n)[k]
<1> DEFINE n == Len(delivered) + 1
<1>1. /\ arrived \in Nat /\ arrived <= Len(stream) /\ Len(stream) \in Nat
      /\ input \in Seq(Byte) /\ Len(input) \in Nat /\ Len(input) > 0
      /\ Len(delivered) \in Nat /\ Len(sent) \in Nat /\ Len(delivered) <= Len(sent)
    BY DEF IInv, TypeOK, InOrder
<1>2. delivered = <<>> <=> Len(delivered) = 0
    BY DEF IInv, TypeOK
<1>3. sent = <<>> <=> Len(sent) = 0
    BY DEF IInv, TypeOK
<1>4. /\ Len(input) = arrived - NextAt
      /\ \A k \in 1..Len(input) : input[k] = stream[NextAt + k]
    BY DEF IInv, Buffered
<1>5. Len(stream) = IF sent = <<>> THEN 0 ELSE EndOf(Len(sent))
    BY DEF IInv, Written
<1>6. NextAt = IF delivered = <<>> THEN 0 ELSE EndOf(Len(delivered))
    BY DEF NextAt
<1>7. NextAt \in Nat
  <2>1. CASE delivered = <<>>
    BY <1>6, <2>1
  <2>2. CASE delivered # <<>>
    <3>1. Len(delivered) \in 1..Len(sent)
      BY <1>1, <1>2, <2>2
    <3>2. EndOf(Len(delivered)) \in Nat
      BY <3>1, CodeTypes DEF IInv
    <3> QED BY <1>6, <2>2, <3>2
  <2> QED BY <2>1, <2>2
<1>8. Len(delivered) # Len(sent)
  <2>1. SUFFICES ASSUME Len(delivered) = Len(sent) PROVE FALSE
    OBVIOUS
  <2>2. NextAt = Len(stream)
    BY <1>2, <1>3, <1>5, <1>6, <2>1
  <2> QED BY <1>1, <1>4, <2>2
<1>9. n \in 1..Len(sent)
    BY <1>1, <1>8
<1>10. NextAt = sent[n].at
  <2>1. sent[n].at = IF n = 1 THEN 0 ELSE EndOf(n - 1)
    <3>1. n \in DOMAIN sent
      BY <1>9 DEF IInv, TypeOK
    <3> HIDE DEF n
    <3> QED BY <3>1 DEF IInv, Written
  <2>2. n - 1 = Len(delivered) /\ (n = 1 <=> Len(delivered) = 0)
    BY <1>1
  <2> HIDE DEF n
  <2> QED BY <1>2, <1>6, <2>1, <2>2
<1>11. \A k \in 1..Len(input) : k <= Len(Code(n)) => input[k] = Code(n)[k]
  <2>1. \A k \in 1..Len(Code(n)) : stream[sent[n].at + k] = Code(n)[k]
    <3>1. n \in DOMAIN sent
      BY <1>9 DEF IInv, TypeOK
    <3> HIDE DEF n
    <3> QED BY <3>1 DEF IInv, Written, Code
  <2>2. Len(Code(n)) \in Nat
    <3> HIDE DEF n
    <3> QED BY <1>9, CodeTypes DEF IInv
  <2> HIDE DEF n
  <2> QED BY <1>1, <1>4, <1>10, <2>1, <2>2
<1> QED BY <1>9, <1>10, <1>11

(* What is handed over is the next message, and never of a peer with       *)
(* another version or another secret.                                      *)
Heard == peer.version = PROTOCOL_VERSION /\ peer.secret \in {secret, NoSecret}

LEMMA DeliversNext ==
    ASSUME IInv, Deliver
    PROVE  LET n == Len(delivered) + 1
           IN /\ n \in 1..Len(sent)
              /\ delivered' = Append(delivered, sent[n].msg)
              /\ Heard
              /\ input' \in Seq(Byte)
              /\ Len(input') = Len(input) - Len(Code(n)) /\ Len(input) >= Len(Code(n))
              /\ \A k \in 1..Len(input') : input'[k] = input[Len(Code(n)) + k]
<1> DEFINE n == Len(delivered) + 1
<1>1. input # <<>> /\ Complete(input)
    BY DEF Deliver, Complete
<1>2. /\ n \in 1..Len(sent) /\ NextAt = sent[n].at
      /\ \A k \in 1..Len(input) : k <= Len(Code(n)) => input[k] = Code(n)[k]
    BY <1>1, NextInBuffer
<1> HIDE DEF n
<1>3. /\ peer \in Peers /\ sent[n].msg \in Messages
      /\ Len(Code(n)) \in Nat /\ Len(Code(n)) > 2
    BY <1>2, CodeTypes DEF IInv
<1>4. input \in Seq(Byte) /\ secret \in Keys
    BY DEF IInv, TypeOK, Keys
<1>5. /\ Complete(input) <=> Len(input) >= Len(Code(n))
      /\ Complete(input) =>
            /\ WellFormed(input) /\ VersionOf(input) = peer.version
            /\ PayloadOf(input) = Payload(peer.secret, sent[n].msg)
            /\ Decodable(input) <=> secret = peer.secret
            /\ Decodable(input) => Decode(input) = sent[n].msg
            /\ Rest(input) = SubSeq(input, Len(Code(n)) + 1, Len(input))
  <2>1. \A k \in 1..Len(input) :
            k <= Len(Encode(peer, sent[n].msg)) => input[k] = Encode(peer, sent[n].msg)[k]
    BY <1>2 DEF Code
  <2>2. peer \in Peers /\ sent[n].msg \in Messages
    BY <1>3
  <2> QED BY <1>1, <1>4, <2>1, <2>2, Decoding DEF Code
<1>6. peer.version = PROTOCOL_VERSION
    BY <1>1, <1>5 DEF Deliver, WrongVersion
<1>7. ASSUME Decodable(input) /\ delivered' = Append(delivered, Decode(input))
      PROVE  Heard /\ delivered' = Append(delivered, sent[n].msg)
    BY <1>1, <1>5, <1>6, <1>7 DEF Heard
<1>8. ASSUME FallsBack(input) /\ delivered' = Append(delivered, Values(PayloadOf(input)))
      PROVE  Heard /\ delivered' = Append(delivered, sent[n].msg)
  <2>1. NoSecret \in Keys /\ peer.secret \in Keys
    BY <1>3 DEF Keys, Peers
  <2>2. ReadableWith(NoSecret, Payload(peer.secret, sent[n].msg))
    BY <1>1, <1>5, <1>8 DEF FallsBack
  <2>3. peer.secret = NoSecret /\ Values(Payload(peer.secret, sent[n].msg)) = sent[n].msg
    BY <1>3, <2>1, <2>2, Understood DEF CanRead, Read
  <2> QED BY <1>1, <1>5, <1>6, <1>8, <2>3 DEF Heard
<1>9. /\ input' \in Seq(Byte)
      /\ Len(input') = Len(input) - Len(Code(n)) /\ Len(input) >= Len(Code(n))
      /\ \A k \in 1..Len(input') : input'[k] = input[Len(Code(n)) + k]
  <2>1. input' = SubSeq(input, Len(Code(n)) + 1, Len(input)) /\ Len(input) >= Len(Code(n))
    BY <1>1, <1>5 DEF Deliver
  <2>2. Len(input) \in Nat /\ Len(Code(n)) \in Nat /\ Len(Code(n)) <= Len(input)
    BY <1>3, <1>4, <2>1
  <2>3. /\ SubSeq(input, Len(Code(n)) + 1, Len(input)) \in Seq(Byte)
        /\ Len(SubSeq(input, Len(Code(n)) + 1, Len(input))) = Len(input) - Len(Code(n))
        /\ \A k \in 1..(Len(input) - Len(Code(n))) :
               SubSeq(input, Len(Code(n)) + 1, Len(input))[k] = input[Len(Code(n)) + k]
    BY <1>4, <2>2, Part
  <2> QED BY <2>1, <2>3
<1>10. Heard /\ delivered' = Append(delivered, sent[n].msg)
    BY <1>7, <1>8 DEF Deliver
<1> QED BY <1>2, <1>9, <1>10 DEF n

-----------------------------------------------------------------------------
(* One direction of a connection is in order: IInv is inductive.           *)

(* No step but Write changes what was written.                             *)
LEMMA NothingWritten ==
    ASSUME UNCHANGED <<peer, stream, sent>>
    PROVE  /\ Written => Written'
           /\ \A i \in DOMAIN sent : EndOf(i)' = EndOf(i) /\ Code(i)' = Code(i)
    BY DEF Written, EndOf, Code, Encode, Payload

LEMMA WriteKeeps ==
    ASSUME IInv, NEW m \in Messages, Write(m)
    PROVE  IInv'
<1> DEFINE code == Encode(peer, m)
           entry == [msg |-> m, at |-> Len(stream)]
<1>0. SUFFICES ASSUME NEW n \in Nat, n = Len(sent)
               PROVE  IInv'
  <2>1. Len(sent) \in Nat
    BY DEF IInv, TypeOK
  <2> QED BY <2>1
<1>1. /\ code \in Seq(Byte) /\ Len(code) \in Nat /\ Len(code) > 2
  <2>1. peer \in Peers
    BY DEF IInv, TypeOK, Peers, Keys
  <2>2. code \in Seq(Byte) /\ Len(code) > 2
    BY <2>1, EncodeTypes
  <2> QED BY <2>2
<1>2. /\ stream \in Seq(Byte) /\ sent \in Seq([msg : Messages, at : Nat])
      /\ Len(stream) \in Nat /\ Len(sent) = n /\ Len(delivered) \in Nat
      /\ arrived \in Nat /\ arrived <= Len(stream)
    BY <1>0 DEF IInv, TypeOK
<1>3. stream' = stream \o code /\ sent' = Append(sent, entry)
      /\ UNCHANGED <<peer, secret, arrived, receiver, delivered, pieces, reason>>
    BY DEF Write
<1>4. entry \in [msg : Messages, at : Nat] /\ entry.msg = m /\ entry.at = Len(stream)
    BY <1>2
<1> HIDE DEF code, entry
<1>5. /\ sent' \in Seq([msg : Messages, at : Nat]) /\ Len(sent') = n + 1
      /\ \A i \in 1..n : sent'[i] = sent[i]
      /\ sent'[n + 1] = entry
    BY <1>2, <1>3, <1>4
<1>6. /\ stream' \in Seq(Byte) /\ Len(stream') = Len(stream) + Len(code)
      /\ \A i \in 1..Len(stream) : stream'[i] = stream[i]
      /\ \A i \in 1..Len(code) : stream'[Len(stream) + i] = code[i]
  <2>1. /\ stream \o code \in Seq(Byte)
        /\ Len(stream \o code) = Len(stream) + Len(code)
        /\ \A i \in 1..Len(stream) : (stream \o code)[i] = stream[i]
        /\ \A i \in 1..Len(code) : (stream \o code)[Len(stream) + i] = code[i]
    <3>1. stream \in Seq(Byte) /\ code \in Seq(Byte)
      BY <1>1, <1>2
    <3> QED BY <3>1, Joined
  <2>2. stream' = stream \o code
    BY <1>3
  <2> QED BY <2>1, <2>2
<1>7. \A i \in 1..n : Code(i)' = Code(i) /\ EndOf(i)' = EndOf(i)
    BY <1>3, <1>5 DEF Code, EndOf, Encode, Payload
<1>8. Code(n + 1)' = code /\ EndOf(n + 1)' = Len(stream')
  <2>1. sent'[n + 1].msg = m /\ sent'[n + 1].at = Len(stream) /\ peer' = peer
    BY <1>3, <1>4, <1>5
  <2>2. Code(n + 1)' = code
    BY <2>1 DEF Code, Encode, Payload, code
  <2>3. EndOf(n + 1)' = Len(stream) + Len(code)
    BY <2>1, <2>2 DEF EndOf, Code
  <2> QED BY <1>6, <2>2, <2>3
<1>9. TypeOK'
    BY <1>2, <1>3, <1>5, <1>6 DEF IInv, TypeOK, receiver
<1>10. InOrder'
  <2>1. delivered' = delivered /\ Len(delivered) <= Len(sent)
        /\ \A i \in DOMAIN delivered : delivered[i] = sent[i].msg
    BY <1>3 DEF IInv, InOrder
  <2>2. DOMAIN delivered = 1..Len(delivered)
    BY DEF IInv, TypeOK
  <2>3. \A i \in DOMAIN delivered : sent'[i] = sent[i]
    <3>1. \A i \in DOMAIN delivered : i \in 1..n
      BY <1>2, <2>1, <2>2
    <3> QED BY <1>5, <3>1
  <2>4. Len(delivered) <= Len(sent')
    BY <1>2, <1>5, <2>1
  <2> QED BY <2>1, <2>3, <2>4 DEF InOrder
<1>11. Written'
  <2>1. DOMAIN sent = 1..n /\ DOMAIN sent' = 1..(n + 1)
    BY <1>2, <1>5
  <2>2. ASSUME NEW i \in 1..n
        PROVE  /\ sent'[i].at = IF i = 1 THEN 0 ELSE EndOf(i - 1)'
               /\ \A k \in 1..Len(Code(i)') : stream'[sent'[i].at + k] = Code(i)'[k]
               /\ EndOf(i)' <= Len(stream')
    <3>1. /\ sent[i].at = IF i = 1 THEN 0 ELSE EndOf(i - 1)
          /\ \A k \in 1..Len(Code(i)) : stream[sent[i].at + k] = Code(i)[k]
          /\ EndOf(i) <= Len(stream)
      BY <2>1 DEF IInv, Written, Code
    <3>2. /\ sent[i].at \in Nat /\ Len(Code(i)) \in Nat
          /\ EndOf(i) = sent[i].at + Len(Code(i)) /\ EndOf(i) \in Nat
      <4>1. i \in 1..Len(sent)
        BY <1>2
      <4> QED BY <4>1, CodeTypes DEF IInv
    <3>3. sent'[i] = sent[i] /\ Code(i)' = Code(i) /\ EndOf(i)' = EndOf(i)
      BY <1>5, <1>7
    <3>4. i # 1 => EndOf(i - 1)' = EndOf(i - 1)
      <4>1. i # 1 => i - 1 \in 1..n
        BY <1>2
      <4> QED BY <1>7, <4>1
    <3>5. \A k \in 1..Len(Code(i)) : sent[i].at + k \in 1..Len(stream)
      BY <1>2, <3>1, <3>2
    <3>6. \A k \in 1..Len(Code(i)) : stream'[sent[i].at + k] = Code(i)[k]
      BY <1>6, <3>1, <3>5
    <3>7. EndOf(i) <= Len(stream')
      BY <1>1, <1>2, <1>6, <3>1, <3>2
    <3> QED BY <3>1, <3>3, <3>4, <3>6, <3>7
  <2>3. /\ sent'[n + 1].at = IF n + 1 = 1 THEN 0 ELSE EndOf(n)'
        /\ \A k \in 1..Len(Code(n + 1)') :
               stream'[sent'[n + 1].at + k] = Code(n + 1)'[k]
        /\ EndOf(n + 1)' <= Len(stream')
    <3>1. Len(stream) = IF sent = <<>> THEN 0 ELSE EndOf(n)
      BY <1>2 DEF IInv, Written
    <3>2. /\ sent = <<>> <=> n = 0
          /\ n # 0 => n \in 1..n
          /\ n + 1 = 1 <=> n = 0
      BY <1>2
    <3>3. Len(stream) = IF n + 1 = 1 THEN 0 ELSE EndOf(n)'
      BY <1>7, <3>1, <3>2
    <3>4. sent'[n + 1].at = Len(stream)
      BY <1>4, <1>5
    <3>5. EndOf(n + 1)' <= Len(stream')
      BY <1>1, <1>2, <1>6, <1>8
    <3>6. \A k \in 1..Len(Code(n + 1)') : stream'[sent'[n + 1].at + k] = Code(n + 1)'[k]
      BY <1>6, <1>8, <3>4
    <3> QED BY <3>3, <3>4, <3>5, <3>6
  <2>4. Len(stream') = IF sent' = <<>> THEN 0 ELSE EndOf(n + 1)'
    <3>1. sent' # <<>>
      BY <1>5
    <3> QED BY <1>8, <3>1
  <2>5. ASSUME NEW i \in 1..(n + 1)
        PROVE  /\ sent'[i].at = IF i = 1 THEN 0 ELSE EndOf(i - 1)'
               /\ \A k \in 1..Len(Code(i)') : stream'[sent'[i].at + k] = Code(i)'[k]
               /\ EndOf(i)' <= Len(stream')
    <3>1. CASE i \in 1..n
      BY <2>2, <3>1
    <3>2. CASE i = n + 1
      <4>1. EndOf(i - 1)' = EndOf(n)' /\ EndOf(i)' = EndOf(n + 1)' /\ Code(i)' = Code(n + 1)'
        BY <3>2
      <4> QED BY <2>3, <3>2, <4>1
    <3> QED BY <3>1, <3>2
  <2>6. Len(sent') = n + 1
    BY <1>5
  <2> QED BY <2>1, <2>4, <2>5, <2>6 DEF Written, Code
<1>12. Buffered'
  <2>1. NextAt' = NextAt
    <3>1. delivered # <<>> => Len(delivered) \in 1..n
      BY <1>2 DEF IInv, TypeOK, InOrder
    <3>2. delivered # <<>> => EndOf(Len(delivered))' = EndOf(Len(delivered))
      <4>1. SUFFICES ASSUME NEW d, d = Len(delivered), delivered # <<>>
                     PROVE  EndOf(Len(delivered))' = EndOf(Len(delivered))
        OBVIOUS
      <4>2. EndOf(d)' = EndOf(d)
        BY <1>7, <3>1, <4>1
      <4>3. Len(delivered') = d
        BY <1>3, <4>1
      <4> QED BY <4>1, <4>2, <4>3
    <3> QED BY <1>3, <3>2 DEF NextAt
  <2>2. input' = input /\ arrived' = arrived
    BY <1>3 DEF receiver
  <2>3. /\ NextAt <= arrived /\ Len(input) = arrived - NextAt
        /\ \A k \in 1..Len(input) : input[k] = stream[NextAt + k]
    BY DEF IInv, Buffered
  <2>4. NextAt \in Nat
    <3>1. delivered # <<>> => Len(delivered) \in 1..Len(sent)
      BY DEF IInv, TypeOK, InOrder
    <3>2. delivered # <<>> => EndOf(Len(delivered)) \in Nat
      BY <3>1, CodeTypes DEF IInv
    <3> QED BY <3>2 DEF NextAt
  <2>5. \A k \in 1..Len(input) : NextAt + k \in 1..Len(stream)
    BY <1>2, <2>3, <2>4
  <2> QED BY <1>6, <2>1, <2>2, <2>3, <2>5 DEF Buffered
<1> QED BY <1>9, <1>10, <1>11, <1>12 DEF IInv

LEMMA NextAtNat == IInv => NextAt \in Nat
<1>1. SUFFICES ASSUME IInv, delivered # <<>> PROVE EndOf(Len(delivered)) \in Nat
    BY DEF NextAt
<1>2. Len(delivered) \in 1..Len(sent)
    BY <1>1 DEF IInv, TypeOK, InOrder
<1> QED BY <1>1, <1>2, CodeTypes DEF IInv

(* NextAt and Written depend on what was written and on delivered only.    *)
LEMMA ReadsNothing ==
    ASSUME IInv, UNCHANGED <<peer, stream, sent, delivered>>
    PROVE  InOrder' /\ Written' /\ NextAt' = NextAt
<1>1. InOrder'
    BY DEF IInv, InOrder
<1>2. Written'
    BY NothingWritten DEF IInv
<1>3. NextAt' = NextAt
    BY DEF NextAt, EndOf, Encode, Payload
<1> QED BY <1>1, <1>2, <1>3

LEMMA DataReceivedKeeps ==
    ASSUME IInv, NEW n \in 1..(Len(stream) - arrived), DataReceived(n)
    PROVE  IInv'
<1>1. /\ stream \in Seq(Byte) /\ input \in Seq(Byte) /\ Len(stream) \in Nat /\ Len(input) \in Nat
      /\ arrived \in Nat /\ arrived + n <= Len(stream) /\ n \in Nat /\ arrived + n \in Nat
    BY DEF IInv, TypeOK
<1>2. /\ arrived' = arrived + n
      /\ input' = input \o SubSeq(stream, arrived + 1, arrived + n)
      /\ pieces' = pieces + 1 /\ pc' = "loop"
      /\ UNCHANGED <<peer, secret, stream, pendingCounter, transport, sent, delivered, reason>>
    BY DEF DataReceived
<1> DEFINE new == SubSeq(stream, arrived + 1, arrived + n)
<1>3. /\ new \in Seq(Byte) /\ Len(new) = n
      /\ \A k \in 1..n : new[k] = stream[arrived + k]
  <2>1. stream \in Seq(Byte) /\ arrived \in Nat /\ arrived + n \in Nat
    BY <1>1
  <2>2. arrived <= arrived + n /\ arrived + n <= Len(stream) /\ arrived + n - arrived = n
    BY <1>1
  <2>3. /\ new \in Seq(Byte) /\ Len(new) = arrived + n - arrived
        /\ \A k \in 1..(arrived + n - arrived) : new[k] = stream[arrived + k]
    BY <2>1, <2>2, Part
  <2> QED BY <2>2, <2>3
<1> HIDE DEF new
<1>4. /\ input' \in Seq(Byte) /\ Len(input') = Len(input) + n
      /\ \A k \in 1..Len(input) : input'[k] = input[k]
      /\ \A k \in 1..n : input'[Len(input) + k] = new[k]
  <2>1. input \in Seq(Byte) /\ new \in Seq(Byte)
    BY <1>1, <1>3
  <2>2. /\ input \o new \in Seq(Byte) /\ Len(input \o new) = Len(input) + Len(new)
        /\ \A k \in 1..Len(input) : (input \o new)[k] = input[k]
        /\ \A k \in 1..Len(new) : (input \o new)[Len(input) + k] = new[k]
    BY <2>1, Joined
  <2>3. input' = input \o new /\ Len(new) = n
    BY <1>2, <1>3 DEF new
  <2> QED BY <2>2, <2>3
<1>5. TypeOK'
  <2>1. pieces' \in Nat /\ arrived' \in 0..Len(stream')
    BY <1>1, <1>2 DEF IInv, TypeOK
  <2> QED BY <1>2, <1>4, <2>1 DEF IInv, TypeOK
<1>6. InOrder' /\ Written' /\ NextAt' = NextAt
    BY <1>2, ReadsNothing
<1>7. Buffered'
  <2>1. NextAt \in Nat
    BY NextAtNat
  <2>2. /\ NextAt <= arrived /\ Len(input) = arrived - NextAt
        /\ \A k \in 1..Len(input) : input[k] = stream[NextAt + k]
    BY DEF IInv, Buffered
  <2>3. ASSUME NEW k \in 1..(Len(input) + n)
        PROVE  input'[k] = stream[NextAt + k]
    <3>1. CASE k \in 1..Len(input)
      BY <1>4, <2>2, <3>1
    <3>2. CASE k \notin 1..Len(input)
      <4>1. k - Len(input) \in 1..n /\ Len(input) + (k - Len(input)) = k
        BY <1>1, <3>2
      <4>2. arrived + (k - Len(input)) = NextAt + k
        BY <1>1, <2>1, <2>2
      <4>3. input'[k] = new[k - Len(input)]
        BY <1>4, <4>1
      <4> QED BY <1>3, <4>1, <4>2, <4>3
    <3> QED BY <3>1, <3>2
  <2>4. NextAt <= arrived + n /\ Len(input) + n = arrived + n - NextAt
    BY <1>1, <2>1, <2>2
  <2>5. /\ NextAt' = NextAt /\ arrived' = arrived + n /\ stream' = stream
        /\ Len(input') = Len(input) + n
    BY <1>2, <1>4, <1>6
  <2>6. NextAt' <= arrived' /\ Len(input)' = arrived' - NextAt'
    <3>1. NextAt' = NextAt /\ arrived' = arrived + n
      BY <2>5
    <3>2. Len(input)' = Len(input) + n
      BY <2>5
    <3> QED BY <1>1, <2>1, <2>4, <3>1, <3>2
  <2>7. \A k \in 1..Len(input') : input'[k] = stream'[NextAt' + k]
    BY <2>3, <2>5
  <2> QED BY <2>6, <2>7 DEF Buffered
<1> QED BY <1>5, <1>6, <1>7 DEF IInv

LEMMA DeliverKeeps ==
    ASSUME IInv, Deliver, pc = "loop",
           UNCHANGED <<peer, secret, stream, arrived, sent>>
    PROVE  IInv'
<1>1. PICK n : n = Len(delivered) + 1
    OBVIOUS
<1>2. /\ n \in 1..Len(sent)
      /\ delivered' = Append(delivered, sent[n].msg)
      /\ input' \in Seq(Byte)
      /\ Len(input') = Len(input) - Len(Code(n)) /\ Len(input) >= Len(Code(n))
      /\ \A k \in 1..Len(input') : input'[k] = input[Len(Code(n)) + k]
    BY <1>1, DeliversNext
<1>3. /\ sent[n].msg \in Messages /\ sent[n].at \in Nat
      /\ Len(Code(n)) \in Nat /\ Len(Code(n)) > 2
      /\ EndOf(n) = sent[n].at + Len(Code(n)) /\ EndOf(n) \in Nat
    BY <1>2, CodeTypes DEF IInv
<1>4. /\ delivered \in Seq(Messages) /\ Len(delivered) \in Nat /\ Len(sent) \in Nat
      /\ input \in Seq(Byte) /\ Len(input) \in Nat /\ arrived \in Nat
    BY DEF IInv, TypeOK
<1>5. /\ delivered' \in Seq(Messages) /\ Len(delivered') = n /\ delivered' # <<>>
      /\ \A i \in 1..(n - 1) : delivered'[i] = delivered[i]
      /\ delivered'[n] = sent[n].msg
    BY <1>1, <1>2, <1>3, <1>4
<1>6. /\ pendingCounter' = 0 /\ pieces' \in Nat /\ pc' \in {"idle", "loop"}
      /\ transport' \in {"open", "closing", "down"} /\ reason' \in Reasons
    BY DEF IInv, TypeOK, Deliver, CounterReset, Handled, HandledAndClosed, HandlerRaised,
           CloseFor, Reasons
<1>7. TypeOK'
    BY <1>2, <1>5, <1>6, LimitsAssumption DEF IInv, TypeOK
<1>8. InOrder'
  <2>1. \A i \in 1..(n - 1) : delivered[i] = sent[i].msg
    BY <1>1, <1>4 DEF IInv, InOrder
  <2>2. DOMAIN delivered' = 1..n
    BY <1>5
  <2>3. n <= Len(sent)
    BY <1>2
  <2>4. ASSUME NEW i \in 1..n
        PROVE  delivered'[i] = sent[i].msg
    <3>1. i \in 1..(n - 1) \/ i = n
      BY <1>1, <1>4
    <3> QED BY <1>5, <2>1, <3>1
  <2> QED BY <1>5, <2>2, <2>3, <2>4 DEF InOrder
<1>9. Written'
    BY NothingWritten DEF IInv
<1>10. Buffered'
  <2>1. NextAt = sent[n].at
    <3>1. input # <<>>
      BY DEF Deliver, Complete
    <3> QED BY <1>1, <3>1, NextInBuffer
  <2>2. NextAt' = EndOf(n)
    <3>1. EndOf(n)' = EndOf(n)
      BY DEF EndOf, Encode, Payload
    <3>2. Len(delivered') = n
      BY <1>5
    <3>3. EndOf(Len(delivered))' = EndOf(n)'
      BY <3>2
    <3> QED BY <1>5, <3>1, <3>3 DEF NextAt
  <2>3. /\ NextAt <= arrived /\ Len(input) = arrived - NextAt
        /\ \A k \in 1..Len(input) : input[k] = stream[NextAt + k]
    BY DEF IInv, Buffered
  <2>4. EndOf(n) <= arrived /\ Len(input') = arrived - EndOf(n)
    <3>1. /\ Len(input') = Len(input) - Len(Code(n)) /\ Len(input) >= Len(Code(n))
          /\ NextAt \in Nat /\ EndOf(n) = NextAt + Len(Code(n))
          /\ Len(input) = arrived - NextAt
      BY <1>2, <1>3, <2>1, <2>3
    <3>2. Len(input) \in Nat /\ arrived \in Nat /\ Len(Code(n)) \in Nat
      BY <1>3, <1>4
    <3> QED BY <3>1, <3>2
  <2>5. ASSUME NEW k \in 1..Len(input')
        PROVE  input'[k] = stream[EndOf(n) + k]
    <3>1. Len(Code(n)) + k \in 1..Len(input)
      BY <1>2, <1>3, <1>4
    <3>2. NextAt + (Len(Code(n)) + k) = EndOf(n) + k
      BY <1>3, <2>1
    <3> QED BY <1>2, <2>3, <3>1, <3>2
  <2> QED BY <2>2, <2>4, <2>5 DEF Buffered
<1> QED BY <1>7, <1>8, <1>9, <1>10 DEF IInv

(* The steps that leave the buffer and the messages alone.                 *)
LEMMA OthersKeep ==
    ASSUME IInv, UNCHANGED <<peer, secret, stream, arrived, input, sent, delivered, pieces>>,
           pendingCounter' \in 0..(MaxPending + 1), transport' \in {"open", "closing", "down"},
           pc' \in {"idle", "loop"}, reason' \in Reasons
    PROVE  IInv'
<1>1. TypeOK'
    BY DEF IInv, TypeOK
<1>2. InOrder' /\ Written' /\ NextAt' = NextAt
    BY ReadsNothing
<1>3. Buffered'
    BY <1>2 DEF IInv, Buffered
<1> QED BY <1>1, <1>2, <1>3 DEF IInv

LEMMA StepKeeps == IInv /\ [Next]_vars => IInv'
<1>1. SUFFICES ASSUME IInv, [Next]_vars PROVE IInv'
    OBVIOUS
<1>2. CASE \E m \in Messages : Write(m)
    BY <1>1, <1>2, WriteKeeps
<1>3. CASE \E n \in 1..(Len(stream) - arrived) : DataReceived(n)
    BY <1>1, <1>3, DataReceivedKeeps
<1>4. CASE Pass /\ Deliver
    BY <1>1, <1>4, DeliverKeeps DEF Pass
<1>5. CASE Pass /\ ~Deliver
  <2>1. Exhausted \/ Incomplete \/ Undecodable
    BY <1>5 DEF Pass
  <2>2. UNCHANGED <<peer, secret, stream, arrived, sent>>
    BY <1>5 DEF Pass
  <2>3. UNCHANGED <<input, delivered, pieces>> /\ pc' = "idle"
    BY <2>1 DEF Exhausted, Incomplete, Undecodable
  <2>4. pendingCounter' \in 0..(MaxPending + 1)
    <3>1. pendingCounter \in 0..(MaxPending + 1)
      BY <1>1 DEF IInv, TypeOK
    <3>2. CASE Exhausted \/ Undecodable
      BY <3>1, <3>2 DEF Exhausted, Undecodable
    <3>3. CASE Incomplete
      BY <3>1, <3>3, LimitsAssumption DEF Incomplete
    <3> QED BY <2>1, <3>2, <3>3
  <2>5. transport' \in {"open", "closing", "down"} /\ reason' \in Reasons
    BY <1>1, <2>1 DEF IInv, TypeOK, Exhausted, Incomplete, Undecodable, CloseFor, Reasons
  <2> QED BY <1>1, <2>2, <2>3, <2>4, <2>5, OthersKeep
<1>6. CASE ConnectionLost
  <2>1. /\ UNCHANGED <<peer, secret, stream, arrived, input, pendingCounter, pc,
                       sent, delivered, pieces>>
        /\ transport' = "down" /\ reason' \in Reasons
    BY <1>1, <1>6 DEF IInv, TypeOK, ConnectionLost, Reasons
  <2>2. pendingCounter' \in 0..(MaxPending + 1) /\ pc' \in {"idle", "loop"}
    BY <1>1, <2>1 DEF IInv, TypeOK
  <2> QED BY <1>1, <2>1, <2>2, OthersKeep
<1>7. CASE UNCHANGED vars
  <2>1. /\ UNCHANGED <<peer, secret, stream, arrived, input, sent, delivered, pieces>>
        /\ UNCHANGED <<pendingCounter, transport, pc, reason>>
    BY <1>7 DEF vars, receiver
  <2>2. /\ pendingCounter' \in 0..(MaxPending + 1) /\ transport' \in {"open", "closing", "down"}
        /\ pc' \in {"idle", "loop"} /\ reason' \in Reasons
    BY <1>1, <2>1 DEF IInv, TypeOK
  <2> QED BY <1>1, <2>1, <2>2, OthersKeep
<1> QED BY <1>1, <1>2, <1>3, <1>4, <1>5, <1>6, <1>7 DEF Next

LEMMA InitHolds == Init => IInv
<1> SUFFICES ASSUME Init PROVE IInv
    OBVIOUS
<1>1. TypeOK
    BY LimitsAssumption DEF Init, TypeOK, Reasons
<1>2. InOrder
    BY DEF Init, InOrder
<1>3. Written
    BY DEF Init, Written
<1>4. Buffered
    BY DEF Init, Buffered, NextAt
<1> QED BY <1>1, <1>2, <1>3, <1>4 DEF IInv

(* The inductive invariant: what was written lies gapless in the stream,   *)
(* and the buffer of data_received is the stream from the end of the last  *)
(* message handed over up to what has arrived.                             *)
THEOREM Inductive == Spec => []IInv
<1> QED BY InitHolds, StepKeeps, PTL DEF Spec

(* However the stream is cut, messages are handed over whole, in order,    *)
(* once each.                                                              *)
THEOREM HandedOverInOrder == Spec => []InOrder
<1>1. IInv => InOrder
    BY DEF IInv
<1> QED BY <1>1, Inductive, PTL

-----------------------------------------------------------------------------
(* Equal ends understand each other, others do not.                        *)

(* A connection that ends over the version or the content of a message has *)
(* ends that are not equal.                                                *)
LEMMA UndecodableMeansUnequal == ASSUME IInv, Undecodable PROVE ~Equal
<1>1. PICK n : n = Len(delivered) + 1
    OBVIOUS
<1>2. input # <<>> /\ Complete(input)
    BY DEF Undecodable, Complete
<1>3. /\ n \in 1..Len(sent)
      /\ \A k \in 1..Len(input) : k <= Len(Code(n)) => input[k] = Code(n)[k]
    BY <1>1, <1>2, NextInBuffer
<1>4. peer \in Peers /\ sent[n].msg \in Messages
    BY <1>3, CodeTypes DEF IInv
<1>5. input \in Seq(Byte) /\ secret \in Keys
    BY DEF IInv, TypeOK, Keys
<1>6. WellFormed(input) /\ VersionOf(input) = peer.version /\ (Decodable(input) <=> secret = peer.secret)
  <2>1. \A k \in 1..Len(input) :
            k <= Len(Encode(peer, sent[n].msg)) => input[k] = Encode(peer, sent[n].msg)[k]
    BY <1>3 DEF Code
  <2> QED BY <1>2, <1>4, <1>5, <2>1, Decoding
<1>7. SUFFICES ASSUME Equal PROVE FALSE
    OBVIOUS
<1>8. peer.version = PROTOCOL_VERSION /\ peer.secret = secret
  <2>1. /\ [version |-> PROTOCOL_VERSION, secret |-> secret].version = PROTOCOL_VERSION
        /\ [version |-> PROTOCOL_VERSION, secret |-> secret].secret = secret
    OBVIOUS
  <2> QED BY <1>7, <2>1 DEF Equal
<1> QED BY <1>6, <1>8 DEF Undecodable, Garbage, WrongVersion

THEOREM EqualEndsUnderstand == Spec => []EqualPeersUnderstand
<1>1. Init => EqualPeersUnderstand
    BY DEF Init, EqualPeersUnderstand
<1>2. IInv /\ EqualPeersUnderstand /\ [Next]_vars => EqualPeersUnderstand'
  <2>1. SUFFICES ASSUME IInv, EqualPeersUnderstand, [Next]_vars PROVE EqualPeersUnderstand'
    OBVIOUS
  <2>2. UNCHANGED <<peer, secret>>
    BY <2>1 DEF Next, Write, DataReceived, Pass, ConnectionLost, vars
  <2>3. (Equal' <=> Equal) /\ (Heard' <=> Heard)
    BY <2>2 DEF Equal, Heard
  <2>4. CASE Pass /\ Deliver
    <3>1. Heard
      BY <2>1, <2>4, DeliversNext
    <3>2. reason' \in {"version", "garbage"} => reason \in {"version", "garbage"}
      BY <2>4 DEF Deliver, Handled, HandledAndClosed, HandlerRaised, CloseFor
    <3> QED BY <2>1, <2>3, <3>1, <3>2 DEF EqualPeersUnderstand, Heard
  <2>5. CASE Pass /\ Undecodable
    <3>1. ~Equal
      BY <2>1, <2>5, UndecodableMeansUnequal
    <3>2. delivered' = delivered
      BY <2>5 DEF Undecodable
    <3> QED BY <2>1, <2>3, <3>1, <3>2 DEF EqualPeersUnderstand, Heard
  <2>6. CASE (Pass /\ (Exhausted \/ Incomplete)) \/ ConnectionLost \/ UNCHANGED vars
             \/ (\E m \in Messages : Write(m))
             \/ \E n \in 1..(Len(stream) - arrived) : DataReceived(n)
    <3>1. delivered' = delivered
      BY <2>6 DEF Exhausted, Incomplete, ConnectionLost, vars, Write, DataReceived
    <3>2. reason' \in {"version", "garbage"} => reason \in {"version", "garbage"}
      BY <2>6 DEF Exhausted, Incomplete, CloseFor, ConnectionLost, vars, Write, DataReceived
    <3> QED BY <2>1, <2>3, <3>1, <3>2 DEF EqualPeersUnderstand, Heard
  <2> QED BY <2>1, <2>4, <2>5, <2>6 DEF Next, Pass
<1> QED BY <1>1, <1>2, Inductive, PTL DEF Spec

-----------------------------------------------------------------------------
(* The limit on incomplete messages counts the pieces of one message.      *)

Counting ==
    /\ transport = "open" /\ pc = "idle" => pendingCounter = pieces
    /\ transport = "open" /\ pc = "loop" /\ input = <<>> => pendingCounter = 0 /\ pieces = 0
    /\ transport = "open" /\ pc = "loop" /\ input # <<>> => pieces = pendingCounter + 1
    /\ reason = "incomplete" =>
           pieces > MaxPending + 1 /\ transport # "open" /\ pc = "idle"

LEMMA CountingInit == Init => Counting
    BY DEF Init, Counting

LEMMA CountingStep == IInv /\ Counting /\ [Next]_vars => Counting'
<1>1. SUFFICES ASSUME IInv, Counting, [Next]_vars PROVE Counting'
    OBVIOUS
<1>2. pieces \in Nat /\ pendingCounter \in Nat /\ pendingCounter <= MaxPending + 1
    BY <1>1, LimitsAssumption DEF IInv, TypeOK
<1>3. CASE UNCHANGED vars \/ \E m \in Messages : Write(m)
  <2>1. UNCHANGED <<input, pendingCounter, transport, pc, pieces, reason>>
    BY <1>3 DEF vars, receiver, Write
  <2> QED BY <1>1, <2>1 DEF Counting
<1>4. ASSUME NEW n \in 1..(Len(stream) - arrived), DataReceived(n)
      PROVE  Counting'
  <2>1. /\ transport = "open" /\ pc = "idle" /\ pc' = "loop" /\ pieces' = pieces + 1
        /\ input' = input \o SubSeq(stream, arrived + 1, arrived + n)
        /\ UNCHANGED <<pendingCounter, transport, reason>>
    BY <1>4 DEF DataReceived
  <2>2. input' # <<>>
    <3>1. /\ stream \in Seq(Byte) /\ input \in Seq(Byte) /\ arrived \in Nat /\ Len(stream) \in Nat
          /\ n \in Nat /\ n > 0 /\ arrived + n <= Len(stream)
      BY <1>1 DEF IInv, TypeOK
    <3>2. SubSeq(stream, arrived + 1, arrived + n) \in Seq(Byte)
      BY <3>1
    <3>3. Len(SubSeq(stream, arrived + 1, arrived + n)) = n
      BY <3>1
    <3>4. Len(input') = Len(input) + n
      BY <2>1, <3>1, <3>2, <3>3
    <3>5. Len(input) \in Nat /\ Len(<<>>) = 0
      BY <3>1
    <3> QED BY <3>1, <3>4, <3>5
  <2>3. reason # "incomplete"
    BY <1>1, <2>1 DEF Counting
  <2>4. pendingCounter = pieces
    BY <1>1, <2>1 DEF Counting
  <2> QED BY <2>1, <2>2, <2>3, <2>4 DEF Counting
<1>5. CASE pc = "loop" /\ Exhausted
    BY <1>1, <1>5 DEF Counting, Exhausted
<1>6. CASE pc = "loop" /\ Incomplete
  <2>1. /\ input # <<>> /\ pc = "loop" /\ pc' = "idle"
        /\ UNCHANGED <<input, pieces>> /\ reason # "incomplete"
    BY <1>1, <1>6 DEF Counting, Incomplete
  <2>2. CASE pendingCounter > MaxPending
    <3>1. transport' = "closing" /\ reason' = IF transport = "open" THEN "incomplete" ELSE reason
      BY <1>6, <2>2 DEF Incomplete, CloseFor
    <3>2. transport = "open" => pieces > MaxPending + 1
      <4>1. transport = "open" => pieces = pendingCounter + 1
        BY <1>1, <2>1 DEF Counting
      <4> QED BY <1>2, <2>2, <4>1, LimitsAssumption
    <3> QED BY <2>1, <3>1, <3>2 DEF Counting
  <2>3. CASE ~(pendingCounter > MaxPending)
    <3>1. pendingCounter' = pendingCounter + 1 /\ UNCHANGED <<transport, reason>>
      BY <1>6, <2>3 DEF Incomplete
    <3>2. transport = "open" => pieces = pendingCounter + 1
      BY <1>1, <2>1 DEF Counting
    <3> QED BY <2>1, <3>1, <3>2 DEF Counting
  <2> QED BY <2>2, <2>3
<1>7. CASE pc = "loop" /\ Undecodable
  <2>1. /\ pc' = "idle" /\ UNCHANGED pieces /\ transport' = "closing" /\ reason # "incomplete"
        /\ reason' # "incomplete"
    BY <1>1, <1>7 DEF Counting, Undecodable, CloseFor
  <2> QED BY <2>1 DEF Counting
<1>8. CASE pc = "loop" /\ Deliver
  <2>1. /\ pendingCounter' = 0 /\ pieces' = IF input' = <<>> THEN 0 ELSE 1
        /\ reason # "incomplete"
    BY <1>1, <1>8 DEF Counting, Deliver, CounterReset
  <2>2. CASE Handled
    BY <1>1, <1>8, <2>1, <2>2 DEF Counting, Handled
  <2>3. CASE HandledAndClosed \/ HandlerRaised
    <3>1. transport' = "closing" /\ reason' # "incomplete"
      BY <2>1, <2>3 DEF HandledAndClosed, HandlerRaised, CloseFor
    <3> QED BY <3>1 DEF Counting
  <2> QED BY <1>8, <2>2, <2>3 DEF Deliver
<1>9. CASE ConnectionLost
  <2>1. /\ pc = "idle" /\ transport' = "down" /\ UNCHANGED <<pc, pieces>>
        /\ reason' = IF transport = "open" THEN "lost" ELSE reason
    BY <1>9 DEF ConnectionLost
  <2> QED BY <1>1, <2>1 DEF Counting
<1> QED BY <1>1, <1>3, <1>4, <1>5, <1>6, <1>7, <1>8, <1>9 DEF Next, Pass

(* A connection is given up as incomplete only over one message in too     *)
(* many pieces, and the counter starts again with every message.           *)
THEOREM LimitCountsPieces == Spec => []CountsPieces
<1>1. Counting => CountsPieces
    BY DEF Counting, CountsPieces
<1> QED BY <1>1, CountingInit, CountingStep, Inductive, PTL DEF Spec

-----------------------------------------------------------------------------
(* The connection implements the channel.                                  *)

LEMMA MappedSequence ==
    ASSUME NEW q \in Seq([msg : Messages, at : Nat])
    PROVE  LET s == [i \in DOMAIN q |-> q[i].msg]
           IN /\ s \in Seq(Messages) /\ Len(s) = Len(q)
              /\ \A i \in 1..Len(q) : s[i] = q[i].msg
<1> DEFINE s == [i \in DOMAIN q |-> q[i].msg]
<1>1. DOMAIN q = 1..Len(q) /\ Len(q) \in Nat
    OBVIOUS
<1>2. \A i \in 1..Len(q) : q[i] \in [msg : Messages, at : Nat]
    BY Element
<1>3. s \in [1..Len(q) -> Messages]
    BY <1>1, <1>2
<1>4. s \in Seq(Messages) /\ Len(s) = Len(q)
    BY <1>1, <1>3, Built
<1> QED BY <1>1, <1>4

LEMMA WriteRefines ==
    ASSUME IInv, NEW m \in Messages, Write(m)
    PROVE  Channel!Write
<1> DEFINE s == [i \in DOMAIN sent |-> sent[i].msg]
           t == [i \in DOMAIN sent' |-> sent'[i].msg]
<1>1. /\ s \in Seq(Messages) /\ Len(s) = Len(sent)
      /\ \A i \in 1..Len(sent) : s[i] = sent[i].msg
  <2>1. sent \in Seq([msg : Messages, at : Nat])
    BY DEF IInv, TypeOK
  <2> QED BY <2>1, MappedSequence
<1>2. sent' \in Seq([msg : Messages, at : Nat])
    BY WriteKeeps DEF IInv, TypeOK
<1>3. /\ t \in Seq(Messages) /\ Len(t) = Len(sent')
      /\ \A i \in 1..Len(sent') : t[i] = sent'[i].msg
    BY <1>2, MappedSequence
<1>4. /\ sent \in Seq([msg : Messages, at : Nat]) /\ Len(stream) \in Nat /\ Len(sent) \in Nat
    BY DEF IInv, TypeOK
<1>5. /\ Len(sent') = Len(sent) + 1 /\ \A i \in 1..Len(sent) : sent'[i] = sent[i]
      /\ sent'[Len(sent) + 1].msg = m
    BY <1>4 DEF Write
<1> HIDE DEF s, t
<1>6. /\ Append(s, m) \in Seq(Messages) /\ Len(Append(s, m)) = Len(sent) + 1
      /\ \A i \in 1..Len(sent) : Append(s, m)[i] = s[i]
      /\ Append(s, m)[Len(sent) + 1] = m
    BY <1>1
<1>7. t = Append(s, m)
  <2>1. \A i \in 1..Len(t) : t[i] = Append(s, m)[i]
    <3>1. SUFFICES ASSUME NEW i \in 1..(Len(sent) + 1) PROVE t[i] = Append(s, m)[i]
      BY <1>3, <1>5
    <3>2. i \in 1..Len(sent) \/ i = Len(sent) + 1
      BY <1>4
    <3> QED BY <1>1, <1>3, <1>5, <1>6, <3>1, <3>2
  <2>2. t \in Seq(Messages) /\ Append(s, m) \in Seq(Messages)
    BY <1>3, <1>6
  <2>3. Len(t) = Len(Append(s, m))
    BY <1>3, <1>5, <1>6
  <2> QED BY <2>1, <2>2, <2>3, SameSequence
<1> QED BY <1>7 DEF Channel!Write, Write, receiver, s, t

LEMMA DeliverRefines ==
    ASSUME IInv, pc = "loop", Deliver, UNCHANGED sent
    PROVE  Channel!Deliver
<1> DEFINE s == [i \in DOMAIN sent |-> sent[i].msg]
<1>1. PICK n : n = Len(delivered) + 1
    OBVIOUS
<1>2. n \in 1..Len(sent) /\ delivered' = Append(delivered, sent[n].msg)
    BY <1>1, DeliversNext
<1>3. /\ s \in Seq(Messages) /\ Len(s) = Len(sent)
      /\ \A i \in 1..Len(sent) : s[i] = sent[i].msg
  <2>1. sent \in Seq([msg : Messages, at : Nat])
    BY DEF IInv, TypeOK
  <2> QED BY <2>1, MappedSequence
<1>4. Len(delivered) \in Nat /\ Len(sent) \in Nat
    BY DEF IInv, TypeOK
<1>5. [i \in DOMAIN sent |-> sent[i].msg]' = s
    OBVIOUS
<1> HIDE DEF s
<1>6. Len(delivered) < Len(s) /\ delivered' = Append(delivered, s[Len(delivered) + 1])
    BY <1>1, <1>2, <1>3, <1>4
<1>7. (transport = "open" \/ pc = "loop")' \in BOOLEAN
    OBVIOUS
<1> QED BY <1>5, <1>6, <1>7 DEF Channel!Deliver, s

(* One direction of a trunk connection is a FIFO of messages that breaks   *)
(* at most once.                                                           *)
THEOREM ImplementsChannel == Spec => ChannelSpec
<1>1. Init => Channel!Init
    BY DEF Init, Channel!Init
<1>2. IInv /\ [Next]_vars => [Channel!Next]_Channel!vars
  <2>1. SUFFICES ASSUME IInv, [Next]_vars PROVE [Channel!Next]_Channel!vars
    OBVIOUS
  <2>2. CASE \E m \in Messages : Write(m)
    BY <2>1, <2>2, WriteRefines DEF Channel!Next
  <2>3. CASE Pass /\ Deliver
    BY <2>1, <2>3, DeliverRefines DEF Channel!Next, Pass
  <2>4. CASE (Pass /\ (Exhausted \/ Incomplete \/ Undecodable)) \/ ConnectionLost
    <3>1. UNCHANGED <<sent, delivered>>
      BY <2>4 DEF Pass, Exhausted, Incomplete, Undecodable, ConnectionLost
    <3>2. (transport = "open" \/ pc = "loop")' = (transport = "open" \/ pc = "loop")
          \/ (transport = "open" \/ pc = "loop")' = FALSE
      BY <2>1, <2>4 DEF Pass, Exhausted, Incomplete, Undecodable, CloseFor, ConnectionLost
    <3>3. [i \in DOMAIN sent |-> sent[i].msg]' = [i \in DOMAIN sent |-> sent[i].msg]
      BY <3>1
    <3> QED BY <3>1, <3>2, <3>3 DEF Channel!Next, Channel!Break, Channel!vars
  <2>5. CASE \/ UNCHANGED vars
             \/ \E n \in 1..(Len(stream) - arrived) : DataReceived(n)
    <3>1. UNCHANGED <<sent, delivered>>
      BY <2>5 DEF vars, DataReceived
    <3>2. (transport = "open" \/ pc = "loop")' = (transport = "open" \/ pc = "loop")
      BY <2>5 DEF vars, receiver, DataReceived
    <3> QED BY <3>1, <3>2 DEF Channel!vars
  <2> QED BY <2>1, <2>2, <2>3, <2>4, <2>5 DEF Next, Pass
<1> QED BY <1>1, <1>2, Inductive, PTL DEF Spec, ChannelSpec, Channel!Spec
=============================================================================
