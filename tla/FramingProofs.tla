---------------------------- MODULE FramingProofs ----------------------------
(***************************************************************************)
(* A connection keeps packets whole, and a backup makes of a signed packet *)
(* what was put into it, for any user name, any file name that fits, any   *)
(* data, and however write() and read() cut the bytes up.                  *)
(*                                                                         *)
(* The argument: every part of a packet is copied from where it was put,   *)
(* since what lies before it has the length that was written; a name ends  *)
(* at the first zero because it has none itself and one follows.  What has *)
(* been read, is on its way, and is still to be written are, one after     *)
(* another, the frames of the requests that have not been delivered        *)
(* (Carries), so that the header and payload that complete first are those *)
(* of the first of them.                                                   *)
(***************************************************************************)
EXTENDS Framing, SequenceTheorems, TLAPS

\* A part of a packet is copied whole, whatever is before and after it.
LEMMA CopyPart ==
    ASSUME NEW a \in Seq(Nat), NEW b \in Seq(Nat), NEW c \in Seq(Nat)
    PROVE  Copy(a \o b \o c, Len(a) + 1, Len(b)) = b
<1> DEFINE w == a \o b \o c
<1>1. /\ w \in Seq(Nat) /\ Len(w) = Len(a) + Len(b) + Len(c)
      /\ Len(a) \in Nat /\ Len(b) \in Nat /\ Len(c) \in Nat
      /\ \A k \in 1 .. Len(b) : w[Len(a) + k] = b[k]
  <2>1. /\ a \o b \in Seq(Nat) /\ Len(a \o b) = Len(a) + Len(b) /\ Len(a) \in Nat /\ Len(b) \in Nat
        /\ \A k \in 1 .. Len(a) + Len(b) : (a \o b)[k] = IF k <= Len(a) THEN a[k] ELSE b[k - Len(a)]
    BY ConcatProperties, LenProperties
  <2>2. /\ w \in Seq(Nat) /\ Len(w) = Len(a \o b) + Len(c) /\ Len(c) \in Nat
        /\ \A k \in 1 .. Len(a \o b) + Len(c) :
              w[k] = IF k <= Len(a \o b) THEN (a \o b)[k] ELSE c[k - Len(a \o b)]
    BY <2>1, ConcatProperties, LenProperties
  <2>3. ASSUME NEW k \in 1 .. Len(b) PROVE w[Len(a) + k] = b[k]
    BY <2>1, <2>2
  <2> HIDE DEF w
  <2>4. QED BY <2>1, <2>2, <2>3
<1> HIDE DEF w
<1>2. Max({Len(b), 0}) = Len(b)
  BY <1>1 DEF Max
<1>3. DOMAIN w = 1 .. Len(a) + Len(b) + Len(c)
  BY <1>1, LenProperties
<1>4. Copy(w, Len(a) + 1, Len(b)) = [k \in 1 .. Len(b) |-> b[k]]
  <2>1. \A k \in 1 .. Len(b) : Len(a) + 1 + k - 1 = Len(a) + k /\ Len(a) + k \in DOMAIN w
    BY <1>1, <1>3
  <2>2. QED BY <1>1, <1>2, <2>1 DEF Copy
<1>5. b = [k \in 1 .. Len(b) |-> b[k]]
  BY LenProperties
<1>6. QED BY <1>4, <1>5 DEF w

\* Bytes put together are bytes, as many as there were, however they are grouped.
LEMMA Joined ==
    ASSUME NEW a \in Seq(Nat), NEW b \in Seq(Nat)
    PROVE  /\ a \o b \in Seq(Nat) /\ Len(a \o b) = Len(a) + Len(b)
           /\ Len(a) \in Nat /\ Len(b) \in Nat /\ << >> \in Seq(Nat)
           /\ a \o << >> = a /\ << >> \o a = a
           /\ \A c \in Seq(Nat) : a \o b \o c = a \o (b \o c)
BY ConcatProperties, LenProperties, ConcatEmptySeq, ConcatAssociative, SMTT(30)

\* Where the parts of a packet are that has a and b before c.
LEMMA Parts ==
    ASSUME NEW a \in Seq(Nat), NEW b \in Seq(Nat), NEW c \in Seq(Nat)
    PROVE  /\ a \o b \o c \in Seq(Nat) /\ Len(a \o b \o c) = Len(a) + Len(b) + Len(c)
           /\ Copy(a \o b \o c, 1, Len(a)) = a
           /\ Copy(a \o b \o c, Len(a) + 1, Len(b)) = b
           /\ Copy(a \o b \o c, Len(a) + Len(b) + 1, Len(c)) = c
<1>1. /\ a \o b \in Seq(Nat) /\ Len(a \o b) = Len(a) + Len(b) /\ b \o c \in Seq(Nat)
  BY Joined
<1>2. a \o b \o c \in Seq(Nat) /\ Len(a \o b \o c) = Len(a) + Len(b) + Len(c)
  BY <1>1, Joined
<1>3. Copy(a \o b \o c, 1, Len(a)) = a
  <2>1. Copy(<< >> \o a \o (b \o c), Len(<< >>) + 1, Len(a)) = a
    <3>1. << >> \in Seq(Nat) OBVIOUS
    <3>2. QED BY <1>1, <3>1, CopyPart
  <2>2. << >> \o a = a /\ Len(<< >>) + 1 = 1
    BY Joined
  <2>3. a \o b \o c = a \o (b \o c)
    BY Joined, SMTT(30)
  <2>4. QED BY <2>1, <2>2, <2>3
<1>4. Copy(a \o b \o c, Len(a) + 1, Len(b)) = b
  BY CopyPart
<1>5. Copy(a \o b \o c, Len(a) + Len(b) + 1, Len(c)) = c
  <2> DEFINE ab == a \o b
  <2>0. ab \in Seq(Nat) /\ Len(ab) = Len(a) + Len(b) /\ ab \o c \in Seq(Nat)
    BY <1>1, <1>2
  <2> HIDE DEF ab
  <2>1. Copy(ab \o c \o << >>, Len(ab) + 1, Len(c)) = c
    <3>1. << >> \in Seq(Nat) OBVIOUS
    <3>2. QED BY <2>0, <3>1, CopyPart
  <2>2. ab \o c \o << >> = ab \o c
    BY <2>0, ConcatEmptySeq
  <2>3. QED BY <2>0, <2>1, <2>2 DEF ab
<1>6. QED BY <1>2, <1>3, <1>4, <1>5

\* A text ends at the first zero after it.
LEMMA TextUpTo ==
    ASSUME NEW t \in String, NEW c \in Seq(Nat)
    PROVE  Text(t \o <<0>> \o c) = t
<1> DEFINE w == t \o <<0>> \o c
           ends == {k \in DOMAIN w : w[k] = 0}
<1>1. /\ t \in Seq(Nat) /\ \A k \in 1 .. Len(t) : t[k] # 0
      /\ Len(t) \in Nat /\ <<0>> \in Seq(Nat) /\ Len(<<0>>) = 1 /\ <<0>>[1] = 0
  BY LenProperties DEF String
<1>2. /\ t \o <<0>> \in Seq(Nat) /\ Len(t \o <<0>>) = Len(t) + 1
      /\ \A k \in 1 .. Len(t) : (t \o <<0>>)[k] = t[k]
      /\ (t \o <<0>>)[Len(t) + 1] = 0
  BY <1>1, ConcatProperties
<1>3. /\ w \in Seq(Nat) /\ Len(w) = Len(t) + 1 + Len(c) /\ Len(c) \in Nat
      /\ \A k \in 1 .. Len(t) + 1 : w[k] = (t \o <<0>>)[k]
  BY <1>1, <1>2, ConcatProperties, LenProperties
<1> HIDE DEF w
<1>4. DOMAIN w = 1 .. Len(t) + 1 + Len(c)
  BY <1>3, LenProperties
<1>5. Len(t) + 1 \in ends /\ \A k \in ends : k \in Nat /\ k >= Len(t) + 1
  <2>1. w[Len(t) + 1] = 0 /\ Len(t) + 1 \in DOMAIN w
    <3>1. Len(t) + 1 \in 1 .. Len(t) + 1 /\ Len(t) + 1 \in 1 .. Len(t) + 1 + Len(c)
      BY <1>1, <1>3
    <3>2. QED BY <1>2, <1>3, <1>4, <3>1
  <2>2. ASSUME NEW k \in DOMAIN w, w[k] = 0 PROVE k \in Nat /\ k >= Len(t) + 1
    <3>1. k \in Nat /\ k >= 1
      BY <1>1, <1>3, <1>4
    <3>2. ASSUME k <= Len(t) PROVE w[k] = t[k] /\ t[k] # 0
      <4>1. k \in 1 .. Len(t) /\ k \in 1 .. Len(t) + 1
        BY <1>1, <3>1, <3>2
      <4>2. QED BY <1>1, <1>2, <1>3, <4>1
    <3>3. QED BY <1>1, <2>2, <3>1, <3>2
  <2>3. QED BY <2>1, <2>2
<1> HIDE DEF ends
<1>6. Min(ends) = Len(t) + 1
  <2>1. \A x, y \in Nat : x <= y /\ y <= x => x = y
    OBVIOUS
  <2>2. \A x : x \in ends /\ (\A y \in ends : x <= y) => x = Len(t) + 1
    BY <1>1, <1>5, <2>1
  <2>3. QED BY <1>1, <1>5, <2>2 DEF Min
<1>7. Text(w) = SubSeq(w, 1, Min(ends) - 1)
  BY <1>5 DEF Text, ends
<1>8. SubSeq(w, 1, Len(t)) = t
  <2>1. w = t \o (<<0>> \o c)
    BY <1>1, ConcatAssociative DEF w
  <2>2. <<0>> \o c \in Seq(Nat)
    BY <1>1, ConcatProperties
  <2>3. CASE Len(t) = 0
    <3>1. t = << >>
      BY <1>1, <2>3, EmptySeq
    <3>2. QED BY <1>1, <1>3, <2>3, <3>1, SubSeqProperties, EmptySeq
  <2>4. CASE Len(t) # 0
    <3>1. SubSeq(w, 1, Len(t)) = SubSeq(t, 1, Len(t))
      BY <1>1, <2>1, <2>2, <2>4, SubSeqOfConcat1
    <3>2. QED BY <1>1, <3>1, SubSeqFull
  <2>5. QED BY <1>1, <2>3, <2>4
<1>9. Len(t) + 1 - 1 = Len(t)
  BY <1>1
<1>10. QED BY <1>6, <1>7, <1>8, <1>9 DEF w

\* The end of a field for a name is filled with zeros, of which there is one
\* at least, so that the name is found again.
LEMMA FieldRoundTrip ==
    ASSUME NEW name \in String, Len(name) < NAME_SIZE,
           NEW pad, pad = [k \in 1 .. NAME_SIZE - Len(name) |-> 0]
    PROVE  /\ pad \in Seq(Nat) /\ name \in Seq(Nat) /\ name \o pad \in Seq(Nat)
           /\ Len(name \o pad) = NAME_SIZE
           /\ Text(name \o pad) = name
<1>1. name \in Seq(Nat) /\ Len(name) \in Nat
  BY LenProperties DEF String
<1>2. PICK m \in Nat : m = NAME_SIZE - Len(name) - 1
  BY <1>1 DEF NAME_SIZE
<1>3. NAME_SIZE - Len(name) = m + 1 /\ NAME_SIZE = Len(name) + (m + 1)
  BY <1>1, <1>2 DEF NAME_SIZE
<1>4. pad \in Seq(Nat) /\ Len(pad) = m + 1 /\ \A k \in 1 .. m + 1 : pad[k] = 0
  BY <1>3
<1>5. PICK rest \in Seq(Nat) : Len(rest) = m /\ \A k \in 1 .. m : rest[k] = 0
  <2>1. /\ [k \in 1 .. m |-> 0] \in Seq(Nat) /\ Len([k \in 1 .. m |-> 0]) = m
        /\ \A j \in 1 .. m : [k \in 1 .. m |-> 0][j] = 0
    OBVIOUS
  <2>2. QED BY <2>1
<1>6. pad = <<0>> \o rest
  <2>1. <<0>> \in Seq(Nat) /\ Len(<<0>>) = 1 /\ <<0>>[1] = 0
    OBVIOUS
  <2>2. /\ <<0>> \o rest \in Seq(Nat) /\ Len(<<0>> \o rest) = 1 + m
        /\ \A k \in 1 .. 1 + m : (<<0>> \o rest)[k] = 0
    BY <1>5, <2>1, ConcatProperties
  <2>3. PICK q \in Seq(Nat) : q = <<0>> \o rest /\ Len(q) = m + 1 /\ \A k \in 1 .. m + 1 : q[k] = 0
    <3>1. 1 + m = m + 1
      OBVIOUS
    <3>2. QED BY <2>2, <3>1
  <2>4. pad = q
    BY <1>4, <2>3, SeqEqual
  <2>5. QED BY <2>3, <2>4
<1>7. name \o pad \in Seq(Nat) /\ Len(name \o pad) = NAME_SIZE
  <2>1. name \o pad \in Seq(Nat) /\ Len(name \o pad) = Len(name) + Len(pad)
    BY <1>1, <1>4, Joined
  <2>2. QED BY <1>3, <1>4, <2>1
<1>8. name \o <<0>> \o rest = name \o pad
  <2>1. <<0>> \in Seq(Nat)
    OBVIOUS
  <2>2. name \o <<0>> \o rest = name \o (<<0>> \o rest)
    BY <1>1, <2>1, ConcatAssociative
  <2>3. QED BY <1>6, <2>2
<1>9. Text(name \o <<0>> \o rest) = name
  BY TextUpTo
<1>10. QED BY <1>1, <1>4, <1>7, <1>8, <1>9

\* A file is read from its bytes again as it was.
LEMMA FileRoundTrip ==
    ASSUME NEW f, NEW name \in String, NEW data \in Seq(Nat), f.name = name, f.data = data,
           Len(name) < NAME_SIZE
    PROVE  /\ ToData(f) \in Seq(Nat)
           /\ FromData(ToData(f)) = [name |-> name, data |-> data]
<1>1. PICK pad : pad = [k \in 1 .. NAME_SIZE - Len(name) |-> 0]
  OBVIOUS
<1>2. PICK field : field = name \o pad
  OBVIOUS
<1>3. /\ pad \in Seq(Nat) /\ name \in Seq(Nat) /\ field \in Seq(Nat)
      /\ Len(field) = NAME_SIZE /\ Text(field) = name
  BY <1>1, <1>2, FieldRoundTrip
<1>4. PICK size \in Seq(Nat) : size = <<Len(data)>> /\ Len(size) = 1 /\ size[1] = Len(data)
  <2>1. <<Len(data)>> \in Seq(Nat) /\ Len(<<Len(data)>>) = 1 /\ <<Len(data)>>[1] = Len(data)
    BY LenProperties
  <2>2. QED BY <2>1
<1>5. ToData(f) = size \o field \o data
  <2>1. ToData(f) = size \o name \o pad \o data
    BY <1>1, <1>4 DEF ToData
  <2>2. size \o name \o pad = size \o (name \o pad)
    BY <1>3, <1>4, ConcatAssociative, SMTT(30)
  <2>3. QED BY <1>2, <2>1, <2>2
<1>6. /\ size \o field \o data \in Seq(Nat)
      /\ Copy(size \o field \o data, 1, Len(size)) = size
      /\ Copy(size \o field \o data, Len(size) + 1, Len(field)) = field
      /\ Copy(size \o field \o data, Len(size) + Len(field) + 1, Len(data)) = data
  <2>1. size \in Seq(Nat) /\ field \in Seq(Nat)
    BY <1>3, <1>4
  <2>2. QED BY <2>1, Parts
<1>7. Len(size) + 1 = 2 /\ Len(size) + Len(field) + 1 = NAME_SIZE + 2
  BY <1>3, <1>4 DEF NAME_SIZE
<1>8. /\ Copy(ToData(f), 1, 1)[1] = Len(data) /\ Copy(ToData(f), 2, NAME_SIZE) = field
      /\ Copy(ToData(f), NAME_SIZE + 2, Len(data)) = data
  BY <1>3, <1>4, <1>5, <1>6, <1>7
<1>9. QED BY <1>3, <1>5, <1>6, <1>8 DEF FromData

\* The packet inside a signed one, and the user who is named behind it, are
\* found again: the length in the inner header says where the payload ends.
LEMMA SignatureRoundTrip ==
    ASSUME NEW type \in Nat, NEW payload \in Seq(Nat), NEW user \in String
    PROVE  Extract(Sign([type |-> type, payload |-> payload], user))
              = [type |-> type, payload |-> payload, user |-> user]
<1>a. \A h, e \in Seq(Nat) : h \o payload \o e = h \o (payload \o e)
  BY ConcatAssociative, SMTT(30)
<1>1. PICK n \in Nat : n = Len(payload)
  BY LenProperties
<1>2. PICK t \in Seq(Nat), l \in Seq(Nat) :
         t = <<type>> /\ l = <<n>> /\ Len(t) = 1 /\ Len(l) = 1 /\ t[1] = type /\ l[1] = n
  <2>1. /\ <<type>> \in Seq(Nat) /\ Len(<<type>>) = 1 /\ <<type>>[1] = type
        /\ <<n>> \in Seq(Nat) /\ Len(<<n>>) = 1 /\ <<n>>[1] = n
    OBVIOUS
  <2>2. QED BY <2>1
<1>3. PICK head \in Seq(Nat) : head = <<type, n>> /\ head = t \o l /\ Len(head) = 2
  <2>1. <<type, n>> \in Seq(Nat) /\ Len(<<type, n>>) = 2 /\ <<type, n>> = <<type>> \o <<n>>
    OBVIOUS
  <2>2. QED BY <1>2, <2>1
<1>4. PICK end \in Seq(Nat) : end = Append(user, 0) /\ Text(end) = user
  <2>1. user \in Seq(Nat) /\ <<0>> \in Seq(Nat) /\ << >> \in Seq(Nat)
    BY DEF String
  <2>2. Append(user, 0) = user \o <<0>> /\ user \o <<0>> \in Seq(Nat)
    BY <2>1, AppendIsConcat, ConcatProperties
  <2>3. user \o <<0>> \o << >> = user \o <<0>>
    BY <2>2, ConcatEmptySeq
  <2>4. Text(user \o <<0>> \o << >>) = user
    BY <2>1, TextUpTo
  <2>5. QED BY <2>2, <2>3, <2>4
<1>5. PICK w : w = head \o payload \o end
  OBVIOUS
<1>6. /\ Len(w) = Len(head) + Len(payload) + Len(end) /\ Len(end) \in Nat
      /\ Copy(w, Len(head) + 1, Len(payload)) = payload
      /\ Copy(w, Len(head) + Len(payload) + 1, Len(end)) = end
  <2>1. /\ Len(head \o payload \o end) = Len(head) + Len(payload) + Len(end)
        /\ Copy(head \o payload \o end, Len(head) + 1, Len(payload)) = payload
        /\ Copy(head \o payload \o end, Len(head) + Len(payload) + 1, Len(end)) = end
    <3>1. head \in Seq(Nat) /\ end \in Seq(Nat)
      BY <1>3, <1>4
    <3>2. QED BY <3>1, Parts
  <2>2. QED BY <1>4, <1>5, <2>1, LenProperties
<1>7. Copy(w, 1, 1) = t /\ Copy(w, 2, 1) = l
  <2>1. PICK more \in Seq(Nat) : more = payload \o end
    BY <1>4, Joined
  <2>2. t \o l \o payload \o end = t \o l \o (payload \o end)
    <3>1. head \o payload \o end = head \o (payload \o end)
      BY <1>a, <1>3, <1>4
    <3>2. QED BY <1>3, <3>1
  <2>3. Copy(t \o l \o more, 1, Len(t)) = t /\ Copy(t \o l \o more, Len(t) + 1, Len(l)) = l
    <3>1. t \in Seq(Nat) /\ l \in Seq(Nat) /\ more \in Seq(Nat)
      BY <1>2, <2>1
    <3>2. QED BY <3>1, Parts
  <2>4. w = t \o l \o more
    BY <1>3, <1>5, <2>1, <2>2
  <2>5. Len(t) + 1 = 2
    BY <1>2
  <2>6. QED BY <1>2, <2>3, <2>4, <2>5
<1>8. Sign([type |-> type, payload |-> payload], user) = [type |-> SIGNED_PACKET, payload |-> w]
  BY <1>1, <1>3, <1>4, <1>5 DEF Sign, Bytes
<1>9. Len(w) - HEADER_SIZE - n = Len(end)
  <2>1. \A a \in Nat : 2 + n + a - 2 - n = a
    OBVIOUS
  <2>2. QED BY <1>1, <1>3, <1>6, <2>1 DEF HEADER_SIZE
<1>10. /\ Copy(w, HEADER_SIZE, 1)[1] = n /\ Copy(w, 1, 1)[1] = type
       /\ Copy(w, HEADER_SIZE + 1, n) = payload /\ Copy(w, HEADER_SIZE + n + 1, Len(end)) = end
  BY <1>1, <1>2, <1>3, <1>6, <1>7 DEF HEADER_SIZE
<1>11. PICK p : p = [type |-> SIGNED_PACKET, payload |-> w]
  OBVIOUS
<1>12. p.type = SIGNED_PACKET /\ p.payload = w
  BY <1>11
<1>13. Extract(p) = [type |-> type, payload |-> payload, user |-> Text(end)]
  BY <1>9, <1>10, <1>12 DEF Extract
<1>14. QED BY <1>4, <1>8, <1>11, <1>13

\* A backup reads from a signed packet the request that the master was sent,
\* with its user, its name, and in an upload its data: what sign_packet,
\* File::to_data, extract_signature and File::from_data do to it undoes itself.
THEOREM SignedRoundTrip ==
    ASSUME NEW i \in Item, Len(i.name) < NAME_SIZE,
           i.type # UPLOAD_REQ => i.data = << >>
    PROVE  Decode(Sign(Request(i), i.user)) = i
<1>1. /\ i.type \in Nat /\ i.user \in String /\ i.name \in String /\ i.data \in Seq(Nat)
      /\ i = [type |-> i.type, user |-> i.user, name |-> i.name, data |-> i.data]
  BY DEF Item
<1>2. CASE i.type = UPLOAD_REQ
  <2>1. Request(i) = [type |-> i.type, payload |-> ToData(i)]
    BY <1>2 DEF Request
  <2>2. /\ ToData(i) \in Seq(Nat) /\ FromData(ToData(i)) = [name |-> i.name, data |-> i.data]
    BY <1>1, FileRoundTrip
  <2>3. Extract(Sign(Request(i), i.user)) = [type |-> i.type, payload |-> ToData(i), user |-> i.user]
    BY <1>1, <2>1, <2>2, SignatureRoundTrip
  <2>4. QED BY <1>1, <1>2, <2>2, <2>3 DEF Decode
<1>3. CASE i.type # UPLOAD_REQ
  <2>1. Request(i) = [type |-> i.type, payload |-> Append(i.name, 0)]
    BY <1>3 DEF Request
  <2>2. /\ << >> \in Seq(Nat) /\ <<0>> \in Seq(Nat) /\ i.name \in Seq(Nat)
        /\ Append(i.name, 0) = i.name \o <<0>> \o << >> /\ Append(i.name, 0) \in Seq(Nat)
    BY <1>1, AppendIsConcat, ConcatEmptySeq, ConcatProperties DEF String
  <2>3. Text(Append(i.name, 0)) = i.name
    BY <1>1, <2>2, TextUpTo
  <2>4. Extract(Sign(Request(i), i.user))
           = [type |-> i.type, payload |-> Append(i.name, 0), user |-> i.user]
    BY <1>1, <2>1, <2>2, SignatureRoundTrip, ZenonT(30)
  <2>5. QED BY <1>1, <1>3, <2>3, <2>4 DEF Decode
<1>4. QED BY <1>2, <1>3

-----------------------------------------------------------------------------
(* The types.                                                              *)

\* What write_packet sends of a request
Frame(i) == Bytes(Sign(Request(i), i.user))

LEMMA FrameTyped ==
    ASSUME NEW i \in Item, Fits(i)
    PROVE  \E p \in Seq(Nat) :
              /\ Sign(Request(i), i.user) = [type |-> SIGNED_PACKET, payload |-> p]
              /\ Frame(i) = <<SIGNED_PACKET, Len(p)>> \o p
              /\ Len(p) \in Nat \ {0}
<1>1. i.type \in Nat /\ i.user \in String /\ i.name \in String /\ i.data \in Seq(Nat)
  BY DEF Item
<1>2. PICK q : Request(i) = [type |-> i.type, payload |-> q] /\ q \in Seq(Nat)
  <2>1. CASE i.type = UPLOAD_REQ
    <3>1. ToData(i) \in Seq(Nat)
      BY <1>1, FileRoundTrip DEF Fits
    <3>2. QED BY <2>1, <3>1 DEF Request
  <2>2. CASE i.type # UPLOAD_REQ
    <3>1. Append(i.name, 0) \in Seq(Nat)
      BY <1>1 DEF String
    <3>2. QED BY <2>2, <3>1 DEF Request
  <2>3. QED BY <2>1, <2>2
<1>3. PICK e : e = Append(i.user, 0) /\ e \in Seq(Nat)
  <2>1. i.user \in Seq(Nat) /\ 0 \in Nat
    BY <1>1 DEF String
  <2>2. Append(i.user, 0) \in Seq(Nat)
    BY <2>1, AppendProperties
  <2>3. QED BY <2>2
<1>4. PICK h \in Seq(Nat) : h = <<i.type, Len(q)>> /\ Len(h) = 2
  <2>1. <<i.type, Len(q)>> \in Seq(Nat) /\ Len(<<i.type, Len(q)>>) = 2
    BY <1>1, <1>2, LenProperties
  <2>2. QED BY <2>1
<1>5. PICK p \in Seq(Nat) : p = h \o q \o e /\ Len(p) \in Nat \ {0}
  <2>1. h \o q \o e \in Seq(Nat) /\ Len(h \o q \o e) = 2 + Len(q) + Len(e)
    BY <1>2, <1>3, <1>4, Parts
  <2>2. Len(q) \in Nat /\ Len(e) \in Nat
    BY <1>2, <1>3, LenProperties
  <2>3. Len(h \o q \o e) \in Nat \ {0}
    BY <2>1, <2>2
  <2>4. QED BY <2>1, <2>3
<1>6. Sign(Request(i), i.user) = [type |-> SIGNED_PACKET, payload |-> p]
  BY <1>2, <1>3, <1>4, <1>5 DEF Sign, Bytes
<1>7. Frame(i) = <<SIGNED_PACKET, Len(p)>> \o p
  <2>1. PICK s : s = Sign(Request(i), i.user)
    OBVIOUS
  <2>2. s.type = SIGNED_PACKET /\ s.payload = p
    BY <1>6, <2>1
  <2>3. QED BY <2>1, <2>2 DEF Frame, Bytes
<1>8. QED BY <1>5, <1>6, <1>7

\* The bytes of a request: a header of two and the payload it announces.
LEMMA FrameBytes ==
    ASSUME NEW i \in Item, Fits(i)
    PROVE  /\ Frame(i) \in Seq(Nat) /\ Len(Frame(i)) \in Nat
           /\ Frame(i)[1] = SIGNED_PACKET /\ Frame(i)[2] = Len(Frame(i)) - 2 /\ Frame(i)[2] > 0
           /\ \E p \in Seq(Nat) :
                 /\ Sign(Request(i), i.user) = [type |-> SIGNED_PACKET, payload |-> p]
                 /\ Len(p) = Frame(i)[2] /\ \A k \in 1 .. Len(p) : Frame(i)[k + 2] = p[k]
<1>1. PICK p \in Seq(Nat) : /\ Sign(Request(i), i.user) = [type |-> SIGNED_PACKET, payload |-> p]
                            /\ Frame(i) = <<SIGNED_PACKET, Len(p)>> \o p /\ Len(p) \in Nat \ {0}
  BY FrameTyped
<1>2. PICK h \in Seq(Nat) : /\ h = <<SIGNED_PACKET, Len(p)>> /\ Len(h) = 2
                            /\ h[1] = SIGNED_PACKET /\ h[2] = Len(p)
  <2>1. /\ <<SIGNED_PACKET, Len(p)>> \in Seq(Nat) /\ Len(<<SIGNED_PACKET, Len(p)>>) = 2
        /\ <<SIGNED_PACKET, Len(p)>>[1] = SIGNED_PACKET /\ <<SIGNED_PACKET, Len(p)>>[2] = Len(p)
    BY <1>1 DEF SIGNED_PACKET
  <2>2. QED BY <2>1
<1>3. PICK f \in Seq(Nat) : f = h \o p /\ Len(f) = 2 + Len(p)
         /\ \A k \in 1 .. 2 + Len(p) : f[k] = IF k <= 2 THEN h[k] ELSE p[k - 2]
  <2>1. /\ h \o p \in Seq(Nat) /\ Len(h \o p) = Len(h) + Len(p)
        /\ \A k \in 1 .. Len(h) + Len(p) : (h \o p)[k] = IF k <= Len(h) THEN h[k] ELSE p[k - Len(h)]
    BY ConcatProperties
  <2>2. PICK f : f = h \o p
    OBVIOUS
  <2>3. f \in Seq(Nat) /\ Len(f) = 2 + Len(p)
        /\ \A k \in 1 .. 2 + Len(p) : f[k] = IF k <= 2 THEN h[k] ELSE p[k - 2]
    BY <1>2, <2>1, <2>2
  <2>4. QED BY <2>2, <2>3
<1>4. f[1] = SIGNED_PACKET /\ f[2] = Len(p) /\ \A k \in 1 .. Len(p) : f[k + 2] = p[k]
  BY <1>1, <1>2, <1>3
<1>5. f = Frame(i)
  BY <1>1, <1>2, <1>3
<1>6. /\ Frame(i) \in Seq(Nat) /\ Len(Frame(i)) = 2 + Len(p)
      /\ Frame(i)[1] = SIGNED_PACKET /\ Frame(i)[2] = Len(p) /\ \A k \in 1 .. Len(p) : Frame(i)[k + 2] = p[k]
  BY <1>3, <1>4, <1>5
<1>7. QED BY <1>1, <1>6, SMTT(30)

LEMMA MinOfTwo ==
    ASSUME NEW a \in Int, NEW b \in Int
    PROVE  /\ Min({a, b}) \in {a, b} /\ Min({a, b}) \in Int
           /\ Min({a, b}) <= a /\ Min({a, b}) <= b
<1>1. \E x \in {a, b} : \A y \in {a, b} : x <= y
  OBVIOUS
<1>2. Min({a, b}) \in {a, b} /\ \A y \in {a, b} : Min({a, b}) <= y
  BY <1>1 DEF Min
<1>3. QED BY <1>2

\* A sequence is what is before a place, and what is behind it.
LEMMA Cut ==
    ASSUME NEW s \in Seq(Nat), NEW n \in 0 .. Len(s)
    PROVE  /\ SubSeq(s, 1, n) \in Seq(Nat) /\ Len(SubSeq(s, 1, n)) = n
           /\ SubSeq(s, n + 1, Len(s)) \in Seq(Nat) /\ Len(SubSeq(s, n + 1, Len(s))) = Len(s) - n
           /\ SubSeq(s, 1, n) \o SubSeq(s, n + 1, Len(s)) = s
<1>1. Len(s) \in Nat /\ \A k \in 1 .. Len(s) : s[k] \in Nat
  BY LenProperties
<1>2. SubSeq(s, 1, n) \in Seq(Nat) /\ Len(SubSeq(s, 1, n)) = n
  BY <1>1, SubSeqProperties
<1>3. SubSeq(s, n + 1, Len(s)) \in Seq(Nat) /\ Len(SubSeq(s, n + 1, Len(s))) = Len(s) - n
  BY <1>1, SubSeqProperties
<1>4. SubSeq(s, 1, n) \o SubSeq(s, n + 1, Len(s)) = SubSeq(s, 1, Len(s))
  <2>1. 1 \in 1 .. Len(s) + 1 /\ n \in 1 - 1 .. Len(s) /\ Len(s) \in n .. Len(s)
    BY <1>1
  <2>2. QED BY <2>1, ConcatAdjacentSubSeq
<1>5. QED BY <1>2, <1>3, <1>4, SubSeqFull

\* What is to be written, and what has been begun, are requests of the script.
Scripted ==
    /\ \A w \in Writer : \A k \in DOMAIN todo[w] : Fits(todo[w][k]) /\ todo[w][k] \in Asked
    /\ \A k \in DOMAIN order : Fits(order[k])

\* What a write() hands over is the beginning of what there is to be written.
LEMMA WritesBytes ==
    ASSUME TypeOK, Scripted, NEW w \in Writer, Writes(w)
    PROVE  \E a, b \in Seq(Nat) :
              /\ Len(wire) + Len(a) <= room
              /\ wire' = wire \o a /\ left' = [left EXCEPT ![w] = b]
              /\ \/ /\ left[w] = << >> /\ todo[w] # << >>
                    /\ a \o b = Frame(Head(todo[w]))
                    /\ todo' = [todo EXCEPT ![w] = Tail(@)]
                    /\ order' = Append(order, Head(todo[w]))
                 \/ /\ left[w] # << >> /\ a \o b = left[w] /\ UNCHANGED <<todo, order>>
<1> DEFINE begins == left[w] = << >>
           bytes  == IF begins THEN Frame(Head(todo[w])) ELSE left[w]
           n      == Min({room - Len(wire), Len(bytes)})
<1>1. /\ begins => todo[w] # << >>
      /\ todo' = IF begins THEN [todo EXCEPT ![w] = Tail(@)] ELSE todo
      /\ order' = IF begins THEN Append(order, Head(todo[w])) ELSE order
      /\ wire' = wire \o SubSeq(bytes, 1, n)
      /\ left' = [left EXCEPT ![w] = SubSeq(bytes, n + 1, Len(bytes))]
      /\ Len(wire) < room
  BY DEF Writes, Frame
<1>2. wire \in Seq(Nat) /\ Len(wire) \in Nat /\ room \in Nat /\ left[w] \in Seq(Nat) /\ todo[w] \in Seq(Item)
  BY FramingAssumption, LenProperties DEF TypeOK
<1>3. begins => Frame(Head(todo[w])) \in Seq(Nat)
  <2>1. SUFFICES ASSUME begins PROVE Frame(Head(todo[w])) \in Seq(Nat)
    OBVIOUS
  <2>2. Head(todo[w]) \in Item /\ Fits(Head(todo[w]))
    BY <1>1, <1>2, <2>1 DEF Scripted
  <2>3. QED BY <2>2, FrameBytes
<1>4. bytes \in Seq(Nat) /\ Len(bytes) \in Nat
  BY <1>2, <1>3, LenProperties
<1> HIDE DEF bytes
<1>5. n \in 0 .. Len(bytes) /\ n <= room - Len(wire)
  <2>1. room - Len(wire) \in Int /\ Len(bytes) \in Int /\ room - Len(wire) >= 0
    BY <1>1, <1>2, <1>4
  <2>2. /\ n \in {room - Len(wire), Len(bytes)} /\ n \in Int
        /\ n <= room - Len(wire) /\ n <= Len(bytes)
    BY <2>1, MinOfTwo
  <2>3. QED BY <1>4, <2>1, <2>2
<1> HIDE DEF n
<1>6. PICK a \in Seq(Nat), b \in Seq(Nat) :
         /\ a = SubSeq(bytes, 1, n) /\ b = SubSeq(bytes, n + 1, Len(bytes))
         /\ Len(a) = n /\ a \o b = bytes
  BY <1>4, <1>5, Cut, ZenonT(30)
<1>7. Len(wire) + Len(a) <= room
  BY <1>2, <1>5, <1>6
<1>8. CASE begins
  <2>1. a \o b = Frame(Head(todo[w]))
    BY <1>6, <1>8 DEF bytes
  <2>2. QED BY <1>1, <1>6, <1>7, <1>8, <2>1
<1>9. CASE ~begins
  <2>1. a \o b = left[w]
    BY <1>6, <1>9 DEF bytes
  <2>2. QED BY <1>1, <1>6, <1>7, <1>9, <2>1
<1>10. QED BY <1>8, <1>9

\* The numbers in the state.
LEMMA Numbers ==
    ASSUME TypeOK
    PROVE  /\ Wanted \in Nat /\ buffer[1] \in Nat /\ buffer[2] \in Nat
           /\ wire \in Seq(Nat) /\ Len(wire) \in Nat /\ got \in Seq(Nat) /\ Len(got) \in Nat
           /\ room \in Nat
<1>1. buffer \in Seq(Nat) /\ Len(buffer) = 2
  BY DEF TypeOK, HEADER_SIZE
<1>2. buffer[1] \in Nat /\ buffer[2] \in Nat
  BY <1>1, 1 \in 1 .. 2, 2 \in 1 .. 2, ElementOfSeq
<1>3. QED BY <1>2, FramingAssumption, LenProperties DEF TypeOK, Wanted, HEADER_SIZE

\* What a read() returns is the beginning of what is on its way, and not more
\* than is wanted.
LEMMA ReadsBytes ==
    ASSUME TypeOK, Reads
    PROVE  \E a, b, g \in Seq(Nat) :
              /\ wire = a \o b /\ wire' = b /\ g = got \o a /\ Len(g) = Len(got) + Len(a)
              /\ Len(a) > 0 /\ Len(g) <= Wanted /\ Len(b) <= Len(wire)
              /\ \/ /\ Len(g) < Wanted /\ got' = g /\ UNCHANGED <<reader, buffer, delivered>>
                 \/ /\ Len(g) = Wanted /\ reader = "header" /\ HasHeader(g)
                 \/ /\ Len(g) = Wanted /\ reader = "payload" /\ Delivers(buffer[1], g)
                    /\ UNCHANGED buffer
<1>1. PICK n \in 1 .. Min({Len(wire), Wanted - Len(got)}) :
         LET g == got \o SubSeq(wire, 1, n)
         IN  /\ wire' = SubSeq(wire, n + 1, Len(wire))
             /\ \/ /\ Len(g) < Wanted /\ got' = g
                   /\ UNCHANGED <<reader, buffer, delivered>>
                \/ /\ Len(g) = Wanted /\ reader = "header" /\ HasHeader(g)
                \/ /\ Len(g) = Wanted /\ reader = "payload" /\ Delivers(buffer[1], g)
                   /\ UNCHANGED buffer
  BY DEF Reads
<1>2. /\ wire \in Seq(Nat) /\ Len(wire) \in Nat /\ got \in Seq(Nat) /\ Len(got) \in Nat
      /\ Wanted \in Nat /\ reader # "stopped"
  BY Numbers DEF Reads
<1>3. n \in Nat /\ n >= 1 /\ n <= Len(wire) /\ n <= Wanted - Len(got)
  <2>1. /\ Min({Len(wire), Wanted - Len(got)}) \in Int
        /\ Min({Len(wire), Wanted - Len(got)}) <= Len(wire)
        /\ Min({Len(wire), Wanted - Len(got)}) <= Wanted - Len(got)
    <3>1. Len(wire) \in Int /\ Wanted - Len(got) \in Int
      BY <1>2
    <3>2. QED BY <3>1, MinOfTwo
  <2>2. QED BY <1>2, <2>1
<1>4. PICK a \in Seq(Nat), b \in Seq(Nat) :
         /\ a = SubSeq(wire, 1, n) /\ b = SubSeq(wire, n + 1, Len(wire))
         /\ Len(a) = n /\ Len(b) = Len(wire) - n /\ a \o b = wire
  <2>1. n \in 0 .. Len(wire)
    BY <1>2, <1>3
  <2>2. /\ SubSeq(wire, 1, n) \in Seq(Nat) /\ Len(SubSeq(wire, 1, n)) = n
        /\ SubSeq(wire, n + 1, Len(wire)) \in Seq(Nat)
        /\ Len(SubSeq(wire, n + 1, Len(wire))) = Len(wire) - n
        /\ SubSeq(wire, 1, n) \o SubSeq(wire, n + 1, Len(wire)) = wire
    BY <1>2, <2>1, Cut
  <2>3. QED BY <2>2
<1>5. PICK g \in Seq(Nat) : g = got \o a /\ Len(g) = Len(got) + Len(a)
  BY <1>2, ConcatProperties
<1>6. /\ Len(a) > 0 /\ Len(g) <= Wanted /\ Len(b) <= Len(wire)
  BY <1>2, <1>3, <1>4, <1>5
<1>7. QED BY <1>1, <1>4, <1>5, <1>6

LEMMA HasHeaderTyped ==
    ASSUME TypeOK, NEW h \in Seq(Nat), Len(h) = HEADER_SIZE, HasHeader(h)
    PROVE  /\ buffer' \in Seq(Nat) /\ Len(buffer') = HEADER_SIZE
           /\ reader' \in {"header", "payload"} /\ got' = << >> /\ Len(got') < Wanted'
           /\ delivered' \in Seq([type : Byte, payload : Seq(Byte)])
<1>1. h[1] \in Nat /\ h[2] \in Nat
  BY 1 \in 1 .. 2, 2 \in 1 .. 2, ElementOfSeq DEF HEADER_SIZE
<1>2. Len(<< >>) = 0
  OBVIOUS
<1>3. CASE h[2] = 0
  <2>1. [type |-> h[1], payload |-> << >>] \in [type : Byte, payload : Seq(Byte)]
    BY <1>1 DEF Byte
  <2>2. delivered' = Append(delivered, [type |-> h[1], payload |-> << >>])
        /\ reader' = "header" /\ got' = << >> /\ buffer' = h
    BY <1>3 DEF HasHeader, Delivers
  <2>3. delivered' \in Seq([type : Byte, payload : Seq(Byte)])
    BY <2>1, <2>2, AppendProperties DEF TypeOK
  <2>4. QED BY <1>2, <2>2, <2>3 DEF Wanted, HEADER_SIZE
<1>4. CASE h[2] # 0
  BY <1>1, <1>2, <1>4 DEF HasHeader, Wanted, TypeOK
<1>5. QED BY <1>3, <1>4

LEMMA DeliversTyped ==
    ASSUME TypeOK, NEW t \in Byte, NEW p \in Seq(Byte), Delivers(t, p), UNCHANGED buffer
    PROVE  /\ buffer' \in Seq(Nat) /\ Len(buffer') = HEADER_SIZE
           /\ reader' \in {"header", "payload"} /\ got' = << >> /\ Len(got') < Wanted'
           /\ delivered' \in Seq([type : Byte, payload : Seq(Byte)])
<1>1. [type |-> t, payload |-> p] \in [type : Byte, payload : Seq(Byte)]
  OBVIOUS
<1>2. delivered' \in Seq([type : Byte, payload : Seq(Byte)])
  BY <1>1, AppendProperties DEF TypeOK, Delivers
<1>3. Len(<< >>) = 0
  OBVIOUS
<1>4. QED BY <1>2, <1>3 DEF TypeOK, Delivers, Wanted, HEADER_SIZE

LEMMA InitTyped == Init => TypeOK /\ Scripted
<1>1. SUFFICES ASSUME Init PROVE TypeOK /\ Scripted
  OBVIOUS
<1>2. << >> \in Seq(Nat) /\ Len(<< >>) = 0 /\ << >> \in Seq(Item)
      /\ << >> \in Seq([type : Byte, payload : Seq(Byte)])
  OBVIOUS
<1>3. buffer \in Seq(Nat) /\ Len(buffer) = 2
  <2>1. buffer \in [1 .. 2 -> Nat]
    BY <1>1, FramingAssumption DEF Init, HEADER_SIZE
  <2>2. buffer \in Seq(Nat)
    BY <2>1, SeqDef
  <2>3. QED BY <2>1, <2>2
<1>4. todo \in [Writer -> Seq(Item)] /\ room \in Nat \ {0}
  BY <1>1, FramingAssumption DEF Init
<1>5. TypeOK
  <2>1. wire = << >> /\ got = << >> /\ reader = "header"
        /\ left = [w \in Writer |-> << >>] /\ delivered = << >> /\ order = << >>
    BY <1>1 DEF Init
  <2>2. Len(wire) <= room /\ Len(got) < Wanted /\ Len(buffer) = HEADER_SIZE
    BY <1>2, <1>3, <1>4, <2>1 DEF Wanted, HEADER_SIZE
  <2>3. left \in [Writer -> Seq(Nat)] /\ wire \in Seq(Nat) /\ got \in Seq(Nat) /\ buffer \in Seq(Nat)
        /\ order \in Seq(Item) /\ delivered \in Seq([type : Byte, payload : Seq(Byte)])
    BY <1>2, <1>3, <2>1
  <2>4. QED BY <1>1, <1>4, <2>2, <2>3 DEF Init, TypeOK
<1>6. ASSUME NEW w \in Writer, NEW k \in DOMAIN todo[w]
      PROVE  Fits(todo[w][k]) /\ todo[w][k] \in Asked
  <2>1. todo \in Script
    BY <1>1 DEF Init
  <2>2. Fits(todo[w][k])
    BY <1>6, <2>1, FramingAssumption
  <2>3. todo[w][k] \in Range(todo[w])
    BY <1>6 DEF Range
  <2>4. QED BY <1>6, <2>1, <2>2, <2>3 DEF Asked
<1>7. DOMAIN order = {}
  BY <1>1 DEF Init
<1>8. QED BY <1>5, <1>6, <1>7 DEF Scripted

LEMMA NextTyped == TypeOK /\ Scripted /\ [Next]_vars => TypeOK' /\ Scripted'
<1>1. SUFFICES ASSUME TypeOK, Scripted, [Next]_vars PROVE TypeOK' /\ Scripted'
  OBVIOUS
<1>2. ASSUME UNCHANGED <<todo, order>> PROVE Scripted'
  BY <1>1, <1>2 DEF Scripted
<1>3. CASE UNCHANGED vars
  <2>1. TypeOK'
    BY <1>1, <1>3 DEF vars, writerVars, readerVars, TypeOK, Wanted
  <2>2. QED BY <1>2, <1>3, <2>1 DEF vars, writerVars
<1>4. ASSUME NEW w \in Writer, Writes(w) PROVE TypeOK' /\ Scripted'
  <2>1. PICK a \in Seq(Nat), b \in Seq(Nat) :
           /\ Len(wire) + Len(a) <= room
           /\ wire' = wire \o a /\ left' = [left EXCEPT ![w] = b]
           /\ \/ /\ left[w] = << >> /\ todo[w] # << >>
                 /\ todo' = [todo EXCEPT ![w] = Tail(@)]
                 /\ order' = Append(order, Head(todo[w]))
              \/ UNCHANGED <<todo, order>>
    BY <1>1, <1>4, WritesBytes
  <2>2. wire' \in Seq(Nat) /\ Len(wire') <= room
    BY <1>1, <2>1, ConcatProperties DEF TypeOK
  <2>3. left' \in [Writer -> Seq(Nat)]
    BY <1>1, <2>1 DEF TypeOK
  <2>4. todo' \in [Writer -> Seq(Item)] /\ order' \in Seq(Item) /\ Scripted'
    <3>1. CASE UNCHANGED <<todo, order>>
      BY <1>1, <1>2, <3>1 DEF TypeOK
    <3>2. CASE todo[w] # << >> /\ todo' = [todo EXCEPT ![w] = Tail(@)]
               /\ order' = Append(order, Head(todo[w]))
      <4>1. /\ todo[w] \in Seq(Item) /\ Head(todo[w]) \in Item /\ Tail(todo[w]) \in Seq(Item)
            /\ Head(todo[w]) = todo[w][1] /\ 1 \in DOMAIN todo[w]
            /\ \A k \in DOMAIN Tail(todo[w]) : k + 1 \in DOMAIN todo[w] /\ Tail(todo[w])[k] = todo[w][k + 1]
        BY <1>1, <3>2 DEF TypeOK
      <4>2. todo' \in [Writer -> Seq(Item)] /\ todo'[w] = Tail(todo[w])
            /\ \A v \in Writer : v # w => todo'[v] = todo[v]
        BY <1>1, <3>2, <4>1 DEF TypeOK
      <4>3. ASSUME NEW v \in Writer, NEW k \in DOMAIN todo'[v]
            PROVE  Fits(todo'[v][k]) /\ todo'[v][k] \in Asked
        <5>1. CASE v = w
          <6>1. k \in DOMAIN Tail(todo[w])
            BY <4>2, <4>3, <5>1
          <6>2. k + 1 \in DOMAIN todo[w] /\ todo'[v][k] = todo[w][k + 1]
            BY <4>1, <4>2, <5>1, <6>1
          <6>3. QED BY <1>1, <6>2 DEF Scripted
        <5>2. CASE v # w
          BY <1>1, <4>2, <4>3, <5>2 DEF Scripted
        <5>3. QED BY <5>1, <5>2
      <4>4. order' \in Seq(Item) /\ \A k \in DOMAIN order' :
                (k \in DOMAIN order /\ order'[k] = order[k]) \/ order'[k] = Head(todo[w])
        BY <1>1, <3>2, <4>1, SMTT(30) DEF TypeOK
      <4>5. \A k \in DOMAIN order' : Fits(order'[k])
        BY <1>1, <4>1, <4>4 DEF Scripted
      <4>6. Scripted'
        BY <4>3, <4>5 DEF Scripted
      <4>7. QED BY <4>2, <4>4, <4>6
    <3>3. QED BY <2>1, <3>1, <3>2
  <2>5. UNCHANGED <<room, closed, error, reader, buffer, got, delivered, failed>>
        /\ overlapped' \in BOOLEAN
    BY <1>1, <1>4 DEF Writes, readerVars, TypeOK
  <2>6. QED BY <1>1, <2>2, <2>3, <2>4, <2>5 DEF TypeOK, Wanted
<1>5. CASE Reads
  <2>1. PICK a \in Seq(Nat), b \in Seq(Nat), g \in Seq(Nat) :
           /\ wire' = b /\ Len(b) <= Len(wire)
           /\ \/ /\ Len(g) < Wanted /\ got' = g /\ UNCHANGED <<reader, buffer, delivered>>
              \/ /\ Len(g) = Wanted /\ reader = "header" /\ HasHeader(g)
              \/ /\ reader = "payload" /\ Delivers(buffer[1], g) /\ UNCHANGED buffer
    BY <1>1, <1>5, ReadsBytes
  <2>2. wire' \in Seq(Nat) /\ Len(wire') <= room
    BY <1>1, <2>1, FramingAssumption, LenProperties DEF TypeOK
  <2>3. /\ buffer' \in Seq(Nat) /\ Len(buffer') = HEADER_SIZE
        /\ reader' \in {"header", "payload", "stopped"} /\ got' \in Seq(Nat)
        /\ reader' # "stopped" => Len(got') < Wanted'
        /\ delivered' \in Seq([type : Byte, payload : Seq(Byte)])
    <3>1. CASE Len(g) < Wanted /\ got' = g /\ UNCHANGED <<reader, buffer, delivered>>
      BY <1>1, <3>1 DEF TypeOK, Wanted
    <3>2. CASE Len(g) = Wanted /\ reader = "header" /\ HasHeader(g)
      <4>1. Len(g) = HEADER_SIZE
        BY <3>2 DEF Wanted
      <4>2. << >> \in Seq(Nat)
        OBVIOUS
      <4>3. QED BY <1>1, <3>2, <4>1, <4>2, HasHeaderTyped
    <3>3. CASE Delivers(buffer[1], g) /\ UNCHANGED buffer
      <4>1. buffer[1] \in Byte /\ g \in Seq(Byte)
        BY <1>1, Numbers, SeqMonotonic, Nat \subseteq Byte DEF Byte
      <4>2. << >> \in Seq(Nat)
        OBVIOUS
      <4>3. QED BY <1>1, <3>3, <4>1, <4>2, DeliversTyped
    <3>4. QED BY <2>1, <3>1, <3>2, <3>3
  <2>4. UNCHANGED <<todo, left, order, overlapped, room, closed, error, failed>>
    BY <1>5 DEF Reads, writerVars
  <2>5. TypeOK'
    BY <1>1, <2>2, <2>3, <2>4 DEF TypeOK
  <2>6. QED BY <1>2, <2>4, <2>5
<1>6. CASE ReadsError
  <2>1. /\ buffer' \in Seq(Nat) /\ Len(buffer') = HEADER_SIZE
        /\ reader' \in {"header", "payload", "stopped"} /\ got' \in Seq(Nat)
        /\ reader' # "stopped" => Len(got') < Wanted'
        /\ delivered' \in Seq([type : Byte, payload : Seq(Byte)])
    <3>0. << >> \in Seq(Nat)
      OBVIOUS
    <3>1. CASE HasHeader(buffer)
      <4>1. buffer \in Seq(Nat) /\ Len(buffer) = HEADER_SIZE
        BY <1>1 DEF TypeOK
      <4>2. QED BY <1>1, <3>0, <3>1, <4>1, HasHeaderTyped
    <3>2. CASE Delivers(buffer[1], Copy(got, 1, Wanted)) /\ UNCHANGED buffer
      <4>1. buffer[1] \in Byte /\ got \in Seq(Nat)
        BY <1>1, Numbers DEF Byte
      <4>2. Wanted \in Nat
        BY <1>1, Numbers
      <4>3. Copy(got, 1, Wanted) \in Seq(Byte)
        <5>1. Max({Wanted, 0}) \in Nat
          <6>1. \E x \in {Wanted, 0} : \A y \in {Wanted, 0} : x >= y
            BY <4>2
          <6>2. Max({Wanted, 0}) \in {Wanted, 0} /\ \A y \in {Wanted, 0} : Max({Wanted, 0}) >= y
            BY <6>1 DEF Max
          <6>3. QED BY <4>2, <6>2
        <5>2. \A k \in DOMAIN got : got[k] \in Byte
          BY <4>1 DEF Byte
        <5>3. PICK m \in Nat : m = Max({Wanted, 0})
          BY <5>1
        <5>4. PICK f : f = [k \in 1 .. m |-> IF 1 + k - 1 \in DOMAIN got THEN got[1 + k - 1] ELSE Garbage]
          OBVIOUS
        <5>5. \A k \in 1 .. m : f[k] \in Byte
          BY <5>2, <5>4 DEF Byte
        <5>6. f \in Seq(Byte)
          BY <5>4, <5>5
        <5>7. QED BY <5>3, <5>4, <5>6 DEF Copy
      <4>4. QED BY <1>1, <3>0, <3>2, <4>1, <4>3, DeliversTyped
    <3>3. CASE got # << >> /\ got' = Front(got) /\ UNCHANGED <<reader, buffer, delivered>>
      <4>1. Front(got) \in Seq(Nat) /\ Len(Front(got)) = Len(got) - 1
        <5>1. got \in Seq(Nat) /\ Len(got) \in Nat \ {0} /\ \A k \in 1 .. Len(got) - 1 : got[k] \in Nat
          BY <1>1, <3>3, EmptySeq, LenProperties DEF TypeOK
        <5>2. Len(got) - 1 \in 0 .. Len(got)
          BY <5>1
        <5>3. QED BY <5>1, <5>2, Cut DEF Front
      <4>2. Len(got) \in Nat /\ Wanted \in Nat /\ Wanted' = Wanted
        BY <1>1, <3>3, Numbers DEF Wanted
      <4>3. QED BY <1>1, <3>3, <4>1, <4>2 DEF TypeOK
    <3>4. QED BY <1>6, <3>1, <3>2, <3>3 DEF ReadsError
  <2>2. UNCHANGED <<todo, left, order, overlapped, room, wire, closed>>
        /\ error' \in BOOLEAN /\ failed' \in BOOLEAN
    BY <1>6 DEF ReadsError, writerVars
  <2>3. TypeOK'
    BY <1>1, <2>1, <2>2 DEF TypeOK
  <2>4. QED BY <1>2, <2>2, <2>3
<1>7. CASE ReadsEnd
  <2>1. UNCHANGED <<todo, left, order, overlapped, room, wire, closed, error, buffer, got, delivered, failed>>
        /\ reader' = "stopped"
    BY <1>7 DEF ReadsEnd, writerVars
  <2>2. TypeOK'
    BY <1>1, <2>1 DEF TypeOK
  <2>3. QED BY <1>2, <2>1, <2>2
<1>8. CASE Closes
  <2>1. /\ UNCHANGED <<todo, left, order, overlapped, room, reader, buffer, got, delivered, failed>>
        /\ closed' = TRUE
    BY <1>8 DEF Closes, writerVars, readerVars
  <2>2. wire' \in Seq(Nat) /\ Len(wire') <= room /\ error' \in BOOLEAN
    <3>1. CASE UNCHANGED <<wire, error>>
      BY <1>1, <3>1 DEF TypeOK
    <3>2. CASE error' = TRUE /\ \E n \in 0 .. Len(wire) : wire' = SubSeq(wire, 1, n)
      <4>1. PICK n \in 0 .. Len(wire) : wire' = SubSeq(wire, 1, n)
        BY <3>2
      <4>2. SubSeq(wire, 1, n) \in Seq(Nat) /\ Len(SubSeq(wire, 1, n)) = n
        BY <1>1, Cut DEF TypeOK
      <4>3. Len(wire) \in Nat /\ n <= Len(wire) /\ Len(wire) <= room /\ room \in Nat
        BY <1>1, FramingAssumption, LenProperties DEF TypeOK
      <4>4. QED BY <3>2, <4>1, <4>2, <4>3
    <3>3. QED BY <1>8, <3>1, <3>2 DEF Closes
  <2>3. TypeOK'
    BY <1>1, <2>1, <2>2 DEF TypeOK, Wanted
  <2>4. QED BY <1>2, <2>1, <2>3
<1>9. QED BY <1>1, <1>3, <1>4, <1>5, <1>6, <1>7, <1>8 DEF Next

\* Every variable keeps its type: nothing but numbers is ever on its way, and
\* read_packet never has more bytes than it wants.
THEOREM TypeCorrect == Spec => []TypeOK
<1>1. TypeOK /\ Scripted /\ [Next]_vars => TypeOK' /\ Scripted'
  BY NextTyped
<1>2. QED BY InitTyped, <1>1, PTL DEF Spec

-----------------------------------------------------------------------------
(* How reads and writes cut packets up.                                    *)

\* s is made of the frames of q behind the d-th, one after another: the k-th
\* begins at at[k].
Carries(s, d, q) ==
    \E at \in [d + 1 .. Len(q) + 1 -> 0 .. Len(s)] :
        /\ at[d + 1] = 0 /\ at[Len(q) + 1] = Len(s)
        /\ \A i, j \in d + 1 .. Len(q) + 1 : i <= j => at[i] <= at[j]
        /\ \A k \in d + 1 .. Len(q) :
              /\ at[k + 1] = at[k] + Len(Frame(q[k]))
              /\ \A j \in 1 .. Len(Frame(q[k])) : s[at[k] + j] = Frame(q[k])[j]

LEMMA CarriesNothing == Carries(<< >>, 0, << >>)
<1>1. Len(<< >>) = 0
  OBVIOUS
<1>2. PICK at : at = [k \in 1 .. 1 |-> 0]
  OBVIOUS
<1>3. /\ at \in [0 + 1 .. 0 + 1 -> 0 .. 0] /\ at[0 + 1] = 0
      /\ \A i, j \in 0 + 1 .. 0 + 1 : i <= j => at[i] <= at[j]
      /\ 0 + 1 .. 0 = {}
  BY <1>2
<1>4. QED BY <1>1, <1>3 DEF Carries

\* A request that is begun goes behind the others.
LEMMA CarriesMore ==
    ASSUME NEW s \in Seq(Nat), NEW q \in Seq(Item), NEW d \in 0 .. Len(q), Carries(s, d, q),
           NEW i \in Item, Fits(i)
    PROVE  Carries(s \o Frame(i), d, Append(q, i))
<1>1. PICK z \in Nat, n \in Nat : z = Len(s) /\ n = Len(q)
  BY LenProperties
<1>2. PICK at \in [d + 1 .. n + 1 -> 0 .. z] :
        /\ at[d + 1] = 0 /\ at[n + 1] = z
        /\ \A x, y \in d + 1 .. n + 1 : x <= y => at[x] <= at[y]
        /\ \A k \in d + 1 .. n :
              /\ at[k + 1] = at[k] + Len(Frame(q[k]))
              /\ \A j \in 1 .. Len(Frame(q[k])) : s[at[k] + j] = Frame(q[k])[j]
  BY <1>1 DEF Carries
<1>3. PICK l \in Nat : Frame(i) \in Seq(Nat) /\ l = Len(Frame(i))
  BY FrameBytes
<1>4. PICK u : /\ u = s \o Frame(i) /\ Len(u) = z + l
               /\ \A k \in 1 .. z : u[k] = s[k]
               /\ \A j \in 1 .. l : u[z + j] = Frame(i)[j]
  <2>1. /\ Len(s \o Frame(i)) = Len(s) + Len(Frame(i))
        /\ \A k \in 1 .. Len(s) + Len(Frame(i)) :
              (s \o Frame(i))[k] = IF k <= Len(s) THEN s[k] ELSE Frame(i)[k - Len(s)]
    BY <1>3, ConcatProperties
  <2>2. ASSUME NEW k \in 1 .. z PROVE (s \o Frame(i))[k] = s[k]
    BY <1>1, <1>3, <2>1
  <2>3. ASSUME NEW j \in 1 .. l PROVE (s \o Frame(i))[z + j] = Frame(i)[j]
    <3>1. z + j \in 1 .. z + l /\ ~(z + j <= z) /\ z + j - z = j
      BY <2>3
    <3>2. QED BY <1>1, <1>3, <2>1, <3>1
  <2>4. QED BY <1>1, <1>3, <2>1, <2>2, <2>3
<1>5. PICK p : /\ p = Append(q, i) /\ Len(p) = n + 1 /\ p[n + 1] = i
               /\ \A k \in 1 .. n : p[k] = q[k]
  <2>1. /\ Len(Append(q, i)) = Len(q) + 1 /\ Append(q, i)[Len(q) + 1] = i
        /\ \A k \in 1 .. Len(q) : Append(q, i)[k] = q[k]
    BY AppendProperties
  <2>2. QED BY <1>1, <2>1
<1>6. d \in Nat /\ d <= n
  BY <1>1
<1>7. \A k \in d + 1 .. n + 1 : at[k] \in Nat /\ at[k] <= z
  BY <1>1, <1>2, SMTT(30)
<1>8. PICK to : to = [k \in d + 1 .. n + 2 |-> IF k <= n + 1 THEN at[k] ELSE z + l]
  OBVIOUS
<1>9. /\ \A k \in d + 1 .. n + 1 : to[k] = at[k]
      /\ to[n + 2] = z + l
  <2>1. n + 2 \in d + 1 .. n + 2 /\ ~(n + 2 <= n + 1) /\ \A k \in d + 1 .. n + 1 : k \in d + 1 .. n + 2 /\ k <= n + 1
    BY <1>6
  <2>2. QED BY <1>8, <2>1
<1>10. to \in [d + 1 .. n + 2 -> 0 .. z + l]
  <2>1. ASSUME NEW k \in d + 1 .. n + 2 PROVE to[k] \in 0 .. z + l
    <3>1. CASE k <= n + 1
      <4>1. k \in d + 1 .. n + 1
        BY <1>6, <2>1, <3>1
      <4>2. QED BY <1>7, <1>9, <4>1
    <3>2. CASE ~(k <= n + 1)
      <4>1. k = n + 2
        BY <1>6, <2>1, <3>2
      <4>2. QED BY <1>9, <4>1
    <3>3. QED BY <3>1, <3>2
  <2>2. QED BY <1>8, <2>1
<1>11. ASSUME NEW x \in d + 1 .. n + 2, NEW y \in d + 1 .. n + 2, x <= y PROVE to[x] <= to[y]
  <2>1. CASE y <= n + 1
    <3>1. x \in d + 1 .. n + 1 /\ y \in d + 1 .. n + 1
      BY <1>6, <1>11, <2>1
    <3>2. QED BY <1>2, <1>9, <1>11, <3>1
  <2>2. CASE ~(y <= n + 1)
    <3>1. y = n + 2 /\ to[x] \in 0 .. z + l
      BY <1>6, <1>10, <1>11, <2>2
    <3>2. QED BY <1>9, <3>1
  <2>3. QED BY <2>1, <2>2
<1>12. ASSUME NEW k \in d + 1 .. n + 1
       PROVE  /\ to[k + 1] = to[k] + Len(Frame(p[k]))
              /\ \A j \in 1 .. Len(Frame(p[k])) : u[to[k] + j] = Frame(p[k])[j]
  <2>1. CASE k <= n
    <3>1. k \in d + 1 .. n /\ k \in 1 .. n /\ k \in d + 1 .. n + 1 /\ k + 1 \in d + 1 .. n + 1
      BY <1>6, <1>12, <2>1
    <3>2. PICK a \in Nat, w \in Nat : a = at[k] /\ w = Len(Frame(q[k]))
      <4>1. at[k] \in Nat
        BY <1>7, <3>1
      <4>2. Len(Frame(q[k])) \in Nat
        OBVIOUS
      <4>3. QED BY <4>1, <4>2
    <3>3. p[k] = q[k] /\ to[k] = a /\ to[k + 1] = a + w /\ a + w <= z
      BY <1>2, <1>5, <1>7, <1>9, <3>1, <3>2
    <3>4. ASSUME NEW j \in 1 .. w PROVE u[a + j] = Frame(q[k])[j]
      <4>1. a + j \in 1 .. z
        BY <3>2, <3>3, <3>4, SMTT(30)
      <4>2. QED BY <1>2, <1>4, <3>1, <3>2, <3>4, <4>1
    <3>5. QED BY <3>2, <3>3, <3>4
  <2>2. CASE ~(k <= n)
    <3>1. k = n + 1 /\ k + 1 = n + 2
      BY <1>6, <1>12, <2>2
    <3>2. n + 1 \in d + 1 .. n + 1
      BY <1>6
    <3>3. p[k] = i /\ to[k] = z /\ to[k + 1] = z + l
      BY <1>2, <1>5, <1>9, <3>1, <3>2
    <3>4. QED BY <1>3, <1>4, <3>3
  <2>3. QED BY <2>1, <2>2
<1>13. to[d + 1] = 0 /\ n + 2 = n + 1 + 1
  BY <1>2, <1>6, <1>9
<1>14. Carries(u, d, p)
  <2>1. /\ to \in [d + 1 .. Len(p) + 1 -> 0 .. Len(u)]
        /\ to[d + 1] = 0 /\ to[Len(p) + 1] = Len(u)
        /\ \A x, y \in d + 1 .. Len(p) + 1 : x <= y => to[x] <= to[y]
        /\ \A k \in d + 1 .. Len(p) :
              /\ to[k + 1] = to[k] + Len(Frame(p[k]))
              /\ \A j \in 1 .. Len(Frame(p[k])) : u[to[k] + j] = Frame(p[k])[j]
    BY <1>4, <1>5, <1>9, <1>10, <1>11, <1>12, <1>13
  <2>2. QED BY <2>1 DEF Carries
<1>15. QED BY <1>4, <1>5, <1>14

\* The first bytes are those of the first request.
LEMMA CarriesFirst ==
    ASSUME NEW s \in Seq(Nat), Len(s) > 0, NEW q \in Seq(Item), NEW d \in 0 .. Len(q),
           Carries(s, d, q), \A k \in DOMAIN q : Fits(q[k])
    PROVE  /\ d + 1 \in DOMAIN q /\ Fits(q[d + 1]) /\ q[d + 1] \in Item
           /\ Len(Frame(q[d + 1])) <= Len(s)
           /\ \A j \in 1 .. Len(Frame(q[d + 1])) : s[j] = Frame(q[d + 1])[j]
<1>1. PICK at \in [d + 1 .. Len(q) + 1 -> 0 .. Len(s)] :
        /\ at[d + 1] = 0 /\ at[Len(q) + 1] = Len(s)
        /\ \A k \in d + 1 .. Len(q) :
              /\ at[k + 1] = at[k] + Len(Frame(q[k]))
              /\ \A j \in 1 .. Len(Frame(q[k])) : s[at[k] + j] = Frame(q[k])[j]
  BY DEF Carries
<1>2. Len(q) \in Nat /\ Len(s) \in Nat /\ d \in Nat /\ d <= Len(q) /\ DOMAIN q = 1 .. Len(q)
  BY LenProperties
<1>3. d + 1 \in 1 .. Len(q) /\ d + 1 \in d + 1 .. Len(q) /\ d + 1 + 1 \in d + 1 .. Len(q) + 1
  <2>1. d # Len(q)
    <3>1. SUFFICES ASSUME d = Len(q) PROVE FALSE
      OBVIOUS
    <3>2. at[d + 1] = Len(s) /\ at[d + 1] = 0
      BY <1>1, <3>1
    <3>3. QED BY <3>2
  <2>2. PICK n \in Nat : n = Len(q) /\ d \in Nat /\ d <= n /\ d # n
    BY <1>2, <2>1
  <2>3. d + 1 \in 1 .. n /\ d + 1 \in d + 1 .. n /\ d + 1 + 1 \in d + 1 .. n + 1
    BY <2>2
  <2>4. QED BY <2>2, <2>3
<1>4. q[d + 1] \in Item /\ Fits(q[d + 1])
  BY <1>2, <1>3, ElementOfSeq
<1>5. PICK f \in Seq(Nat) : f = Frame(q[d + 1]) /\ Len(f) \in Nat
  BY <1>4, FrameBytes
<1>6. /\ at[d + 1 + 1] = 0 + Len(f) /\ at[d + 1 + 1] \in 0 .. Len(s)
      /\ \A j \in 1 .. Len(f) : s[0 + j] = f[j]
  BY <1>1, <1>3, <1>5
<1>7. Len(f) <= Len(s) /\ \A j \in 1 .. Len(f) : s[j] = f[j]
  BY <1>2, <1>5, <1>6, SMTT(30)
<1>8. QED BY <1>2, <1>3, <1>4, <1>5, <1>7

\* Without these, the others are left.
LEMMA CarriesRest ==
    ASSUME NEW s \in Seq(Nat), NEW t \in Seq(Nat), NEW q \in Seq(Item), NEW d \in 0 .. Len(q) - 1,
           Carries(s \o t, d, q), Len(s) = Len(Frame(q[d + 1]))
    PROVE  Carries(t, d + 1, q)
<1>1. PICK at \in [d + 1 .. Len(q) + 1 -> 0 .. Len(s \o t)] :
        /\ at[d + 1] = 0 /\ at[Len(q) + 1] = Len(s \o t)
        /\ \A x, y \in d + 1 .. Len(q) + 1 : x <= y => at[x] <= at[y]
        /\ \A k \in d + 1 .. Len(q) :
              /\ at[k + 1] = at[k] + Len(Frame(q[k]))
              /\ \A j \in 1 .. Len(Frame(q[k])) : (s \o t)[at[k] + j] = Frame(q[k])[j]
  BY DEF Carries
<1>2. PICK m \in Nat, l \in Nat, n \in Nat : m = Len(s) /\ l = Len(t) /\ n = Len(q) /\ d + 1 <= n
  BY LenProperties
<1>3. /\ Len(s \o t) = m + l /\ \A k \in 1 .. l : (s \o t)[m + k] = t[k]
  <2>1. /\ Len(s \o t) = Len(s) + Len(t)
        /\ \A k \in 1 .. Len(s) + Len(t) : (s \o t)[k] = IF k <= Len(s) THEN s[k] ELSE t[k - Len(s)]
    BY ConcatProperties
  <2>2. ASSUME NEW k \in 1 .. l PROVE (s \o t)[m + k] = t[k]
    <3>1. m + k \in 1 .. m + l /\ ~(m + k <= m) /\ m + k - m = k
      BY <1>2, <2>2
    <3>2. QED BY <1>2, <2>1, <3>1
  <2>3. QED BY <1>2, <2>1, <2>2
<1>4. at[d + 2] = m /\ d + 2 \in d + 1 .. n + 1
  <2>1. d + 1 \in d + 1 .. n /\ d + 1 + 1 = d + 2
    BY <1>2
  <2>2. at[d + 1 + 1] = 0 + m
    BY <1>1, <1>2, <2>1
  <2>3. QED BY <1>2, <2>1, <2>2
<1>5. \A k \in d + 2 .. n + 1 : at[k] \in Nat /\ at[k] >= m /\ at[k] <= m + l
  <2>1. SUFFICES ASSUME NEW k \in d + 2 .. n + 1
                 PROVE  at[k] \in Nat /\ at[k] >= m /\ at[k] <= m + l
    OBVIOUS
  <2>2. k \in d + 1 .. n + 1 /\ d + 2 <= k
    BY <1>2, <2>1
  <2>3. at[k] \in 0 .. m + l
    BY <1>1, <1>2, <1>3, <2>2
  <2>4. at[d + 2] <= at[k]
    BY <1>1, <1>2, <1>4, <2>2
  <2>5. QED BY <1>2, <1>4, <2>3, <2>4
<1>6. PICK to : to = [k \in d + 2 .. n + 1 |-> at[k] - m]
  OBVIOUS
<1>7. \A k \in d + 2 .. n + 1 : to[k] = at[k] - m /\ to[k] \in 0 .. l
  BY <1>2, <1>5, <1>6
<1>8. to \in [d + 2 .. n + 1 -> 0 .. l]
  BY <1>6, <1>7
<1>9. to[d + 2] = 0 /\ to[n + 1] = l
  <2>1. d + 2 \in d + 2 .. n + 1 /\ n + 1 \in d + 2 .. n + 1
    BY <1>2
  <2>2. to[d + 2] = at[d + 2] - m /\ to[n + 1] = at[n + 1] - m
    BY <1>7, <2>1
  <2>3. at[n + 1] = m + l
    BY <1>1, <1>2, <1>3
  <2>4. QED BY <1>2, <1>4, <2>2, <2>3
<1>10. \A x, y \in d + 2 .. n + 1 : x <= y => to[x] <= to[y]
  <2>1. \A x, y \in d + 2 .. n + 1 : x <= y => at[x] <= at[y]
    BY <1>1, <1>2
  <2>2. QED BY <1>2, <1>5, <1>7, <2>1
<1>11. ASSUME NEW k \in d + 2 .. n
       PROVE  /\ to[k + 1] = to[k] + Len(Frame(q[k]))
              /\ \A j \in 1 .. Len(Frame(q[k])) : t[to[k] + j] = Frame(q[k])[j]
  <2>1. k \in d + 1 .. n /\ k \in d + 2 .. n + 1 /\ k + 1 \in d + 2 .. n + 1
    BY <1>2, <1>11
  <2>2. /\ at[k + 1] = at[k] + Len(Frame(q[k]))
        /\ \A j \in 1 .. Len(Frame(q[k])) : (s \o t)[at[k] + j] = Frame(q[k])[j]
    BY <1>1, <1>2, <2>1
  <2>3. PICK a \in Nat, c \in Nat, w \in Nat :
           a = at[k] /\ c = to[k] /\ w = Len(Frame(q[k])) /\ a = m + c
    <3>1. at[k] \in Nat /\ to[k] \in Nat /\ to[k] = at[k] - m
      BY <1>2, <1>5, <1>7, <2>1
    <3>2. Len(Frame(q[k])) \in Nat
      OBVIOUS
    <3>3. at[k] = m + to[k]
      BY <1>2, <3>1
    <3>4. QED BY <3>1, <3>2, <3>3
  <2>4. at[k + 1] = a + w /\ a + w <= m + l /\ to[k + 1] = c + w
    <3>1. at[k + 1] = a + w
      BY <2>2, <2>3
    <3>2. PICK b \in Nat : b = at[k + 1] /\ b <= m + l /\ to[k + 1] = b - m
      BY <1>2, <1>5, <1>7, <2>1
    <3>3. b = m + c + w /\ b - m = c + w
      <4>1. m \in Nat /\ c \in Nat /\ w \in Nat /\ a = m + c /\ b = a + w
        BY <1>2, <2>3, <3>1, <3>2
      <4>2. QED BY <4>1
    <3>4. QED BY <2>3, <3>1, <3>2, <3>3
  <2>5. ASSUME NEW j \in 1 .. w PROVE t[c + j] = Frame(q[k])[j]
    <3>1. c + j \in 1 .. l /\ m + (c + j) = a + j
      <4>1. m \in Nat /\ l \in Nat /\ c \in Nat /\ w \in Nat /\ a = m + c /\ a + w <= m + l
        BY <1>2, <2>3, <2>4
      <4>2. QED BY <2>5, <4>1
    <3>2. (s \o t)[a + j] = t[c + j]
      BY <1>3, <3>1
    <3>3. QED BY <2>2, <2>3, <2>5, <3>2
  <2>6. QED BY <2>3, <2>4, <2>5
<1>12. d + 1 + 1 = d + 2
  BY <1>2
<1>13. /\ to \in [d + 1 + 1 .. Len(q) + 1 -> 0 .. Len(t)]
       /\ to[d + 1 + 1] = 0 /\ to[Len(q) + 1] = Len(t)
       /\ \A x, y \in d + 1 + 1 .. Len(q) + 1 : x <= y => to[x] <= to[y]
       /\ \A k \in d + 1 + 1 .. Len(q) :
             /\ to[k + 1] = to[k] + Len(Frame(q[k]))
             /\ \A j \in 1 .. Len(Frame(q[k])) : t[to[k] + j] = Frame(q[k])[j]
  BY <1>2, <1>8, <1>9, <1>10, <1>11, <1>12
<1>14. QED BY <1>13 DEF Carries

\* The bytes of a packet that have been read
Taken == IF reader = "payload" THEN buffer \o got ELSE got

\* What a thread has still to hand over, until nobody writes any more
Owed(rest) ==
    ~closed => /\ \A w \in Writer : left[w] # << >> => left[w] = rest
               /\ (\A w \in Writer : left[w] = << >>) => rest = << >>

\* What has been read, is on its way, and is still to be written are the frames
\* of the requests that have not been delivered.
Stream ==
    \E rest \in Seq(Nat) : Carries(Taken \o wire \o rest, Len(delivered), order) /\ Owed(rest)

\* The k-th packet is the k-th request's.
Arrived(k) ==
    k \in DOMAIN order /\ delivered[k] = Sign(Request(order[k]), order[k].user)

\* After a read() that failed, nothing more can be read.
Ending ==
    /\ error => closed /\ ~failed
    /\ failed => closed /\ ~error /\ wire = << >>
    /\ reader = "stopped" => closed

InStep ==
    ~overlapped =>
        /\ ~failed => /\ Len(delivered) <= Len(order)
                      /\ reader # "stopped" => Stream
        /\ \A k \in DOMAIN delivered : Arrived(k) \/ (failed /\ k = Len(delivered))

PInv == TypeOK /\ Scripted /\ Ending /\ InStep

LEMMA Together == \A a, b \in Seq(Nat) : a \o b \in Seq(Nat)
BY ConcatProperties

LEMMA Grouped == \A a, b, c \in Seq(Nat) : (a \o b) \o c = a \o (b \o c)
<1>1. ASSUME NEW a \in Seq(Nat), NEW b \in Seq(Nat), NEW c \in Seq(Nat)
      PROVE  (a \o b) \o c = a \o (b \o c)
  BY ConcatAssociative, SMTT(30)
<1>2. QED BY <1>1

LEMMA TakenTyped == TypeOK => Taken \in Seq(Nat)
<1>1. TypeOK => buffer \o got \in Seq(Nat)
  BY Joined DEF TypeOK
<1>2. QED BY <1>1 DEF TypeOK, Taken

LEMMA InitInStep == Init => Ending /\ InStep
<1>1. SUFFICES ASSUME Init PROVE Ending /\ InStep
  OBVIOUS
<1>2. Ending
  BY <1>1 DEF Init, Ending
<1>3. /\ wire = << >> /\ got = << >> /\ reader = "header" /\ delivered = << >> /\ order = << >>
      /\ left = [w \in Writer |-> << >>]
  BY <1>1 DEF Init
<1>4. /\ Len(<< >>) = 0 /\ DOMAIN << >> = {} /\ << >> \in Seq(Nat) /\ << >> \o << >> \o << >> = << >>
  OBVIOUS
<1>5. Taken = << >>
  BY <1>3 DEF Taken
<1>6. Owed(<< >>)
  BY <1>3 DEF Owed
<1>7. Carries(Taken \o wire \o << >>, Len(delivered), order)
  BY <1>3, <1>4, <1>5, CarriesNothing
<1>8. Stream
  BY <1>4, <1>6, <1>7 DEF Stream
<1>9. Len(delivered) <= Len(order) /\ DOMAIN delivered = {}
  BY <1>3, <1>4
<1>10. QED BY <1>2, <1>8, <1>9 DEF InStep

\* Writing: a thread that writes alone puts its packet behind the others.
LEMMA WritesInStep ==
    ASSUME PInv, NEW w \in Writer, Writes(w)
    PROVE  Ending' /\ InStep'
<1>1. /\ UNCHANGED <<closed, error, reader, buffer, got, delivered, failed>> /\ ~closed
      /\ overlapped' = (overlapped \/ \E v \in Writer \ {w} : left[v] # << >>)
  BY DEF Writes, readerVars
<1>2. Ending'
  BY <1>1 DEF PInv, Ending
<1>3. ~failed /\ ~failed'
  BY <1>1 DEF PInv, Ending
<1>4. SUFFICES ASSUME ~overlapped'
               PROVE  /\ Len(delivered) <= Len(order') /\ (reader # "stopped" => Stream')
                      /\ \A k \in DOMAIN delivered : Arrived(k)'
  BY <1>1, <1>2, <1>3 DEF InStep
<1>5. /\ ~overlapped /\ \A v \in Writer : v # w => left[v] = << >>
  BY <1>1, <1>4
<1>6. /\ Len(delivered) <= Len(order) /\ (reader # "stopped" => Stream)
      /\ \A k \in DOMAIN delivered : Arrived(k)
  BY <1>3, <1>5 DEF PInv, InStep
<1>7. PICK a \in Seq(Nat), b \in Seq(Nat) :
              /\ wire' = wire \o a /\ left' = [left EXCEPT ![w] = b]
              /\ \/ /\ left[w] = << >> /\ todo[w] # << >>
                    /\ a \o b = Frame(Head(todo[w]))
                    /\ order' = Append(order, Head(todo[w]))
                 \/ /\ left[w] # << >> /\ a \o b = left[w] /\ UNCHANGED order
  BY WritesBytes DEF PInv
<1>8. /\ order \in Seq(Item) /\ Len(order) \in Nat /\ delivered \in Seq([type : Byte, payload : Seq(Byte)])
      /\ Len(delivered) \in Nat /\ wire \in Seq(Nat) /\ Taken \in Seq(Nat) /\ left \in [Writer -> Seq(Nat)]
      /\ \A k \in DOMAIN order : Fits(order[k])
  BY TakenTyped, LenProperties DEF PInv, TypeOK, Scripted
<1>9. left'[w] = b /\ \A v \in Writer : v # w => left'[v] = << >>
  BY <1>5, <1>7, <1>8
<1>10. Owed(b)'
  BY <1>9 DEF Owed
<1>11. Taken' = Taken
  BY <1>1 DEF Taken
<1>12. CASE left[w] = << >> /\ todo[w] # << >> /\ a \o b = Frame(Head(todo[w]))
            /\ order' = Append(order, Head(todo[w]))
  <2>1. PICK i \in Item : i = Head(todo[w]) /\ Fits(i)
    <3>1. todo[w] \in Seq(Item)
      BY DEF PInv, TypeOK
    <3>2. Head(todo[w]) \in Item /\ Head(todo[w]) = todo[w][1] /\ 1 \in DOMAIN todo[w]
      BY <1>12, <3>1
    <3>3. QED BY <3>2 DEF PInv, Scripted
  <2>2. Len(order') = Len(order) + 1 /\ \A k \in 1 .. Len(order) : order'[k] = order[k]
    BY <1>8, <1>12, <2>1, AppendProperties
  <2>3. \A k \in DOMAIN delivered : Arrived(k)'
    <3>1. DOMAIN order = 1 .. Len(order) /\ order' \in Seq(Item)
      BY <1>8, <1>12, <2>1, AppendProperties
    <3>2. DOMAIN order' = 1 .. Len(order) + 1
      BY <2>2, <3>1, LenProperties
    <3>3. \A k \in DOMAIN order : k \in DOMAIN order' /\ order'[k] = order[k]
      BY <1>8, <2>2, <3>1, <3>2
    <3>4. QED BY <1>1, <1>6, <3>3 DEF Arrived
  <2>4. ASSUME reader # "stopped" PROVE Stream'
    <3>1. PICK rest \in Seq(Nat) : Carries(Taken \o wire \o rest, Len(delivered), order) /\ Owed(rest)
      BY <1>6, <2>4 DEF Stream
    <3>2. rest = << >>
      BY <1>1, <1>5, <1>12, <3>1 DEF Owed
    <3>3. Taken \o wire \o rest = Taken \o wire /\ Taken \o wire \in Seq(Nat)
      BY <1>8, <3>2, Joined
    <3>4. Len(delivered) \in 0 .. Len(order)
      BY <1>6, <1>8
    <3>5. Carries(Taken \o wire \o Frame(i), Len(delivered), Append(order, i))
      BY <1>8, <2>1, <3>1, <3>3, <3>4, CarriesMore
    <3>6. Taken \o (wire \o a) \o b = Taken \o wire \o (a \o b)
      <4>1. Taken \in Seq(Nat) /\ wire \in Seq(Nat)
        BY <1>8
      <4>2. PICK t \in Seq(Nat), u \in Seq(Nat) : t = Taken /\ u = wire
        BY <4>1
      <4>3. t \o (u \o a) \o b = (t \o u) \o a \o b /\ (t \o u) \o a \o b = t \o u \o (a \o b)
        <5>1. (t \o u) \o a = t \o (u \o a)
          BY Grouped, ZenonT(30)
        <5>2. PICK v \in Seq(Nat) : v = t \o u
          BY Together
        <5>3. v \o a \o b = v \o (a \o b)
          BY Grouped, ZenonT(30)
        <5>4. QED BY <5>1, <5>2, <5>3
      <4>4. QED BY <4>2, <4>3
    <3>7. Carries(Taken' \o wire' \o b, Len(delivered'), order')
      BY <1>1, <1>7, <1>11, <1>12, <2>1, <3>5, <3>6
    <3>8. QED BY <1>10, <3>7 DEF Stream
  <2>5. QED BY <1>6, <1>8, <2>2, <2>3, <2>4
<1>13. CASE left[w] # << >> /\ a \o b = left[w] /\ UNCHANGED order
  <2>1. ASSUME reader # "stopped" PROVE Stream'
    <3>1. PICK rest \in Seq(Nat) : Carries(Taken \o wire \o rest, Len(delivered), order) /\ Owed(rest)
      BY <1>6, <2>1 DEF Stream
    <3>2. rest = a \o b
      BY <1>1, <1>13, <3>1 DEF Owed
    <3>3. Taken \o (wire \o a) \o b = Taken \o wire \o (a \o b)
      <4>1. Taken \in Seq(Nat) /\ wire \in Seq(Nat)
        BY <1>8
      <4>2. PICK t \in Seq(Nat), u \in Seq(Nat) : t = Taken /\ u = wire
        BY <4>1
      <4>3. t \o (u \o a) \o b = (t \o u) \o a \o b /\ (t \o u) \o a \o b = t \o u \o (a \o b)
        <5>1. (t \o u) \o a = t \o (u \o a)
          BY Grouped, ZenonT(30)
        <5>2. PICK v \in Seq(Nat) : v = t \o u
          BY Together
        <5>3. v \o a \o b = v \o (a \o b)
          BY Grouped, ZenonT(30)
        <5>4. QED BY <5>1, <5>2, <5>3
      <4>4. QED BY <4>2, <4>3
    <3>4. Carries(Taken' \o wire' \o b, Len(delivered'), order')
      BY <1>1, <1>7, <1>11, <1>13, <3>1, <3>2, <3>3
    <3>5. QED BY <1>10, <3>4 DEF Stream
  <2>2. \A k \in DOMAIN delivered : Arrived(k)'
    BY <1>1, <1>6, <1>13 DEF Arrived
  <2>3. QED BY <1>6, <1>13, <2>1, <2>2
<1>14. QED BY <1>7, <1>12, <1>13

\* Reading: bytes move from the connection to the reader, and once a header
\* and what it announces are there, they are the first request's.
LEMMA ReadsInStep ==
    ASSUME PInv, Reads
    PROVE  Ending' /\ InStep'
<1>1. /\ UNCHANGED <<todo, left, order, overlapped, closed, error, failed>>
      /\ reader # "stopped" /\ wire # << >>
  BY DEF Reads, writerVars
<1>2. ~failed
  BY <1>1 DEF PInv, Ending
<1>3. reader' # "stopped"
  BY <1>1 DEF Reads, HasHeader, Delivers
<1>4. Ending'
  BY <1>1, <1>2, <1>3 DEF PInv, Ending
<1>5. SUFFICES ASSUME ~overlapped
               PROVE  /\ Len(delivered') <= Len(order) /\ Stream'
                      /\ \A k \in DOMAIN delivered' : Arrived(k)'
  BY <1>1, <1>2, <1>4 DEF InStep
<1>6. /\ Len(delivered) <= Len(order)
      /\ \A k \in DOMAIN delivered : Arrived(k)
  BY <1>2, <1>5 DEF PInv, InStep
<1>7. PICK rest \in Seq(Nat) : Carries(Taken \o wire \o rest, Len(delivered), order) /\ Owed(rest)
  BY <1>1, <1>2, <1>5 DEF PInv, InStep, Stream
<1>8. PICK a \in Seq(Nat), b \in Seq(Nat), g \in Seq(Nat) :
              /\ wire = a \o b /\ wire' = b /\ g = got \o a
              /\ Len(a) > 0
              /\ \/ /\ got' = g /\ UNCHANGED <<reader, buffer, delivered>>
                 \/ /\ Len(g) = Wanted /\ reader = "header" /\ HasHeader(g)
                 \/ /\ Len(g) = Wanted /\ reader = "payload" /\ Delivers(buffer[1], g)
                    /\ UNCHANGED buffer
  BY ReadsBytes DEF PInv
<1>9. /\ order \in Seq(Item) /\ Len(order) \in Nat /\ delivered \in Seq([type : Byte, payload : Seq(Byte)])
      /\ Len(delivered) \in Nat /\ got \in Seq(Nat) /\ buffer \in Seq(Nat) /\ Len(buffer) = 2
      /\ \A k \in DOMAIN order : Fits(order[k])
  BY LenProperties DEF PInv, TypeOK, Scripted, HEADER_SIZE
<1>10. Taken \in Seq(Nat)
  BY TakenTyped DEF PInv
<1>11. PICK d \in Nat, s \in Seq(Nat) :
          d = Len(delivered) /\ d \in 0 .. Len(order) /\ s = (Taken \o a) \o b \o rest /\ Carries(s, d, order)
  <2>1. Taken \o (a \o b) \o rest = (Taken \o a) \o b \o rest /\ Taken \o (a \o b) \o rest \in Seq(Nat)
    <3>1. PICK t \in Seq(Nat) : t = Taken
      BY <1>10
    <3>2. (t \o a) \o b = t \o (a \o b)
      BY Grouped, ZenonT(30)
    <3>3. PICK u \in Seq(Nat) : u = a \o b
      BY Together
    <3>4. PICK v \in Seq(Nat) : v = t \o u
      BY Together
    <3>5. v \o rest \in Seq(Nat)
      BY Together
    <3>6. QED BY <3>1, <3>2, <3>3, <3>4, <3>5
  <2>2. Len(delivered) \in 0 .. Len(order)
    BY <1>6, <1>9
  <2>3. QED BY <1>7, <1>8, <1>9, <2>1, <2>2
<1>12. Owed(rest)'
  BY <1>1, <1>7 DEF Owed
<1>13. Taken \o a = IF reader = "payload" THEN buffer \o g ELSE g
  <2>1. (buffer \o got) \o a = buffer \o (got \o a)
    <3>1. PICK t \in Seq(Nat), u \in Seq(Nat) : t = buffer /\ u = got
      BY <1>9
    <3>2. (t \o u) \o a = t \o (u \o a)
      BY Grouped, ZenonT(60)
    <3>3. QED BY <3>1, <3>2
  <2>2. QED BY <1>8, <2>1 DEF Taken
<1>14. PICK x \in Seq(Nat) : x = Taken \o a /\ Len(x) > 0 /\ Len(x) \in Nat
  <2>1. Taken \o a \in Seq(Nat) /\ Len(Taken \o a) = Len(Taken) + Len(a) /\ Len(Taken) \in Nat /\ Len(a) \in Nat
    BY <1>10, Joined
  <2>2. Len(Taken \o a) > 0
    BY <1>8, <2>1
  <2>3. Len(Taken \o a) \in Nat
    BY <2>1
  <2>4. QED BY <2>1, <2>2, <2>3
<1>15. PICK y \in Seq(Nat) : y = b \o rest /\ s = x \o y
  <2>1. b \o rest \in Seq(Nat) /\ x \o b \o rest = x \o (b \o rest)
    <3>1. b \o rest \in Seq(Nat)
      BY Together
    <3>2. x \o b \o rest = x \o (b \o rest)
      BY Grouped, ZenonT(30)
    <3>3. QED BY <3>1, <3>2
  <2>2. QED BY <1>11, <1>14, <2>1
<1>16. PICK f \in Seq(Nat) :
          /\ d + 1 \in DOMAIN order /\ f = Frame(order[d + 1]) /\ Len(f) <= Len(s)
          /\ order[d + 1] \in Item /\ Fits(order[d + 1])
          /\ \A j \in 1 .. Len(f) : s[j] = f[j]
  <2>1. Len(s) > 0
    <3>1. Len(s) = Len(x) + Len(y) /\ Len(y) \in Nat
      BY <1>15, Joined
    <3>2. QED BY <1>14, <3>1
  <2>2. /\ d + 1 \in DOMAIN order /\ Fits(order[d + 1]) /\ order[d + 1] \in Item
        /\ Len(Frame(order[d + 1])) <= Len(s)
        /\ \A j \in 1 .. Len(Frame(order[d + 1])) : s[j] = Frame(order[d + 1])[j]
    BY <1>9, <1>11, <2>1, CarriesFirst
  <2>3. Frame(order[d + 1]) \in Seq(Nat)
    BY <2>2, FrameBytes
  <2>4. QED BY <2>2, <2>3
<1>17. PICK p \in Seq(Nat) :
          /\ Sign(Request(order[d + 1]), order[d + 1].user) = [type |-> SIGNED_PACKET, payload |-> p]
          /\ f[1] = SIGNED_PACKET /\ f[2] = Len(p) /\ Len(f) = Len(p) + 2 /\ Len(p) > 0 /\ Len(p) \in Nat
          /\ \A k \in 1 .. Len(p) : f[k + 2] = p[k]
  <2>1. /\ Len(f) \in Nat /\ f[1] = SIGNED_PACKET /\ f[2] = Len(f) - 2 /\ f[2] > 0
        /\ \E p \in Seq(Nat) :
                 /\ Sign(Request(order[d + 1]), order[d + 1].user) = [type |-> SIGNED_PACKET, payload |-> p]
                 /\ Len(p) = f[2] /\ \A k \in 1 .. Len(p) : f[k + 2] = p[k]
    BY <1>16, FrameBytes
  <2>2. PICK p \in Seq(Nat) :
           /\ Sign(Request(order[d + 1]), order[d + 1].user) = [type |-> SIGNED_PACKET, payload |-> p]
           /\ Len(p) = f[2] /\ \A k \in 1 .. Len(p) : f[k + 2] = p[k]
    BY <2>1
  <2>3. f[2] = Len(p) /\ Len(f) = Len(p) + 2 /\ Len(p) > 0 /\ Len(p) \in Nat
    <3>1. Len(p) \in Nat
      BY LenProperties
    <3>2. QED BY <2>1, <2>2, <3>1
  <2>4. QED BY <2>1, <2>2, <2>3
<1>18. PICK n \in Nat : n = Len(p) /\ Len(f) = n + 2 /\ n > 0
  BY <1>17
<1>19. \A j \in 1 .. Len(x) : s[j] = x[j]
  BY <1>14, <1>15, ConcatProperties
<1>20. CASE got' = g /\ UNCHANGED <<reader, buffer, delivered>>
  <2>1. Taken' = Taken \o a
    BY <1>13, <1>20 DEF Taken
  <2>2. Stream'
    BY <1>1, <1>8, <1>11, <1>12, <1>20, <2>1 DEF Stream
  <2>3. \A k \in DOMAIN delivered : Arrived(k)'
    BY <1>1, <1>6, <1>20 DEF Arrived
  <2>4. QED BY <1>6, <1>20, <2>2, <2>3
<1>21. CASE Len(g) = Wanted /\ reader = "header" /\ HasHeader(g)
  <2>1. x = g /\ Len(g) = 2
    BY <1>13, <1>14, <1>21 DEF Wanted, HEADER_SIZE
  <2>2. g[2] # 0
    <3>1. 2 \in 1 .. Len(x) /\ 2 \in 1 .. Len(f)
      BY <1>17, <2>1
    <3>2. g[2] = f[2]
      BY <1>16, <1>19, <2>1, <3>1
    <3>3. QED BY <1>17, <3>2
  <2>3. buffer' = g /\ reader' = "payload" /\ got' = << >> /\ UNCHANGED delivered
    BY <1>21, <2>2 DEF HasHeader
  <2>4. Taken' = x
    BY <2>1, <2>3, ConcatEmptySeq DEF Taken
  <2>5. Stream'
    BY <1>1, <1>8, <1>11, <1>12, <1>14, <2>3, <2>4 DEF Stream
  <2>6. \A k \in DOMAIN delivered : Arrived(k)'
    BY <1>1, <1>6, <2>3 DEF Arrived
  <2>7. QED BY <1>6, <2>3, <2>5, <2>6
<1>22. CASE Len(g) = Wanted /\ reader = "payload" /\ Delivers(buffer[1], g) /\ UNCHANGED buffer
  <2>1. x = buffer \o g /\ Len(g) = buffer[2] /\ Len(x) = 2 + Len(g) /\ Len(g) \in Nat
    <3>1. Len(buffer \o g) = Len(buffer) + Len(g) /\ Len(g) \in Nat
      BY <1>9, Joined
    <3>2. QED BY <1>9, <1>13, <1>14, <1>22, <3>1 DEF Wanted
  <2>2. PICK m \in Nat : m = Len(g) /\ Len(x) = m + 2
    BY <2>1
  <2>3. /\ x[1] = buffer[1] /\ x[2] = buffer[2]
        /\ \A k \in 1 .. m : x[k + 2] = g[k]
    <3>1. \A k \in 1 .. 2 + m : x[k] = IF k <= 2 THEN buffer[k] ELSE g[k - 2]
      <4>1. \A k \in 1 .. Len(buffer) + Len(g) :
               (buffer \o g)[k] = IF k <= Len(buffer) THEN buffer[k] ELSE g[k - Len(buffer)]
        BY <1>9, ConcatProperties
      <4>2. QED BY <1>9, <2>1, <2>2, <4>1
    <3>2. ASSUME NEW k \in 1 .. m PROVE x[k + 2] = g[k]
      <4>1. k + 2 \in 1 .. 2 + m /\ ~(k + 2 <= 2) /\ k + 2 - 2 = k
        BY <3>2
      <4>2. QED BY <3>1, <4>1
    <3>3. 1 \in 1 .. 2 + m /\ 2 \in 1 .. 2 + m
      OBVIOUS
    <3>4. x[1] = buffer[1] /\ x[2] = buffer[2]
      BY <3>1, <3>3
    <3>5. QED BY <3>2, <3>4
  <2>4. buffer[1] = SIGNED_PACKET /\ buffer[2] = n
    <3>1. 1 \in 1 .. m + 2 /\ 2 \in 1 .. m + 2 /\ 1 \in 1 .. n + 2 /\ 2 \in 1 .. n + 2
      OBVIOUS
    <3>2. s[1] = x[1] /\ s[2] = x[2] /\ s[1] = f[1] /\ s[2] = f[2]
      BY <1>18, <1>16, <1>19, <2>2, <3>1
    <3>3. QED BY <1>18, <1>17, <2>3, <3>2
  <2>5. g = p
    <3>1. m = n
      BY <2>1, <2>4, <2>2
    <3>2. ASSUME NEW k \in 1 .. m PROVE g[k] = p[k]
      <4>1. k + 2 \in 1 .. m + 2 /\ k + 2 \in 1 .. n + 2 /\ k \in 1 .. n
        BY <3>1, <3>2
      <4>2. s[k + 2] = x[k + 2] /\ s[k + 2] = f[k + 2]
        BY <1>18, <1>16, <1>19, <2>2, <4>1
      <4>3. f[k + 2] = p[k]
        BY <1>18, <1>17, <4>1
      <4>4. QED BY <2>3, <3>2, <4>2, <4>3
    <3>3. QED BY <1>18, <2>2, <3>1, <3>2, SeqEqual
  <2>6. /\ delivered' = Append(delivered, [type |-> buffer[1], payload |-> g])
        /\ reader' = "header" /\ got' = << >>
    BY <1>22 DEF Delivers
  <2>7. /\ Len(delivered') = d + 1 /\ DOMAIN delivered' = 1 .. d + 1
        /\ \A k \in 1 .. d : delivered'[k] = delivered[k]
        /\ delivered'[d + 1] = [type |-> SIGNED_PACKET, payload |-> p]
    BY <1>9, <1>11, <2>4, <2>5, <2>6
  <2>8. \A k \in DOMAIN delivered' : Arrived(k)'
    <3>1. ASSUME NEW k \in 1 .. d PROVE Arrived(k)'
      <4>1. k \in DOMAIN delivered
        BY <1>9, <1>11, <3>1
      <4>2. QED BY <1>1, <1>6, <2>7, <3>1, <4>1 DEF Arrived
    <3>2. Arrived(d + 1)'
      BY <1>1, <1>16, <1>17, <2>7 DEF Arrived
    <3>3. \A k \in 1 .. d + 1 : k \in 1 .. d \/ k = d + 1
      BY <1>11
    <3>4. QED BY <2>7, <3>1, <3>2, <3>3
  <2>9. Carries(y, d + 1, order)
    <3>1. Len(x) = Len(f)
      BY <1>18, <1>17, <2>1, <2>4
    <3>2. d \in 0 .. Len(order) - 1
      BY <1>9, <1>11, <1>16, SMTT(30)
    <3>3. QED BY <1>9, <1>11, <1>15, <1>16, <3>1, <3>2, CarriesRest
  <2>10. Taken' \o wire' \o rest = y
    <3>1. Taken' = << >> /\ wire' = b
      BY <1>8, <2>6 DEF Taken
    <3>2. << >> \o b = b
      BY ConcatEmptySeq
    <3>3. QED BY <1>15, <3>1, <3>2
  <2>11. Stream'
    BY <1>1, <1>12, <2>7, <2>9, <2>10 DEF Stream
  <2>12. Len(delivered') <= Len(order)
    BY <1>9, <1>11, <1>16, <2>7
  <2>13. QED BY <2>8, <2>11, <2>12
<1>23. QED BY <1>8, <1>20, <1>21, <1>22

\* The connection ends: what is dropped is owed for ever.
LEMMA ClosesInStep ==
    ASSUME PInv, Closes
    PROVE  Ending' /\ InStep'
<1>1. /\ UNCHANGED <<todo, left, order, overlapped, reader, buffer, got, delivered, failed>>
      /\ ~closed /\ closed' = TRUE /\ (UNCHANGED wire \/ \E n \in 0 .. Len(wire) : wire' = SubSeq(wire, 1, n))
  BY DEF Closes, writerVars, readerVars
<1>2. ~failed
  BY <1>1 DEF PInv, Ending
<1>3. Ending'
  BY <1>1, <1>2 DEF Ending
<1>4. \A k \in DOMAIN delivered : Arrived(k) => Arrived(k)'
  BY <1>1 DEF Arrived
<1>5. SUFFICES ASSUME ~overlapped, reader # "stopped" PROVE Stream'
  BY <1>1, <1>2, <1>3, <1>4 DEF PInv, InStep
<1>6. PICK rest \in Seq(Nat) : Carries(Taken \o wire \o rest, Len(delivered), order)
  BY <1>2, <1>5 DEF PInv, InStep, Stream
<1>7. Taken' = Taken
  BY <1>1 DEF Taken
<1>8. PICK a \in Seq(Nat), b \in Seq(Nat) : a = wire' /\ wire = a \o b
  <2>1. wire \in Seq(Nat) /\ << >> \in Seq(Nat) /\ wire = wire \o << >>
    BY ConcatEmptySeq DEF PInv, TypeOK
  <2>2. CASE UNCHANGED wire
    BY <2>1, <2>2
  <2>3. CASE \E n \in 0 .. Len(wire) : wire' = SubSeq(wire, 1, n)
    <3>1. PICK n \in 0 .. Len(wire) : wire' = SubSeq(wire, 1, n)
      BY <2>3
    <3>2. /\ SubSeq(wire, 1, n) \in Seq(Nat) /\ SubSeq(wire, n + 1, Len(wire)) \in Seq(Nat)
          /\ SubSeq(wire, 1, n) \o SubSeq(wire, n + 1, Len(wire)) = wire
      BY <2>1, Cut
    <3>3. QED BY <3>1, <3>2
  <2>4. QED BY <1>1, <2>2, <2>3
<1>9. Taken \o wire \o rest = Taken \o a \o (b \o rest) /\ b \o rest \in Seq(Nat)
  <2>1. PICK t \in Seq(Nat) : t = Taken
    BY TakenTyped DEF PInv
  <2>2. (t \o a) \o b = t \o (a \o b)
    BY Grouped, ZenonT(30)
  <2>3. PICK v \in Seq(Nat) : v = t \o a
    BY Together
  <2>4. v \o b \o rest = v \o (b \o rest)
    BY Grouped, ZenonT(30)
  <2>5. b \o rest \in Seq(Nat)
    BY Together
  <2>6. QED BY <1>8, <2>1, <2>2, <2>3, <2>4, <2>5
<1>10. Owed(b \o rest)'
  BY <1>1 DEF Owed
<1>11. QED BY <1>1, <1>6, <1>7, <1>8, <1>9, <1>10 DEF Stream

\* The reader stops, or a read() fails: one packet may be forged, after all
\* that have arrived.
LEMMA EndsInStep ==
    ASSUME PInv, ReadsEnd \/ ReadsError
    PROVE  Ending' /\ InStep'
<1>1. CASE ReadsEnd
  <2>1. /\ UNCHANGED <<order, overlapped, wire, closed, error, delivered, failed>>
        /\ closed /\ reader' = "stopped"
    BY <1>1 DEF ReadsEnd, writerVars
  <2>2. \A k \in DOMAIN delivered : Arrived(k) => Arrived(k)'
    BY <2>1 DEF Arrived
  <2>3. QED BY <2>1, <2>2 DEF PInv, Ending, InStep
<1>2. CASE ReadsError
  <2>1. /\ UNCHANGED <<order, overlapped, wire, closed>> /\ wire = << >>
        /\ error /\ error' = FALSE /\ failed' = TRUE /\ reader # "stopped"
    BY <1>2 DEF ReadsError, writerVars
  <2>2. closed /\ ~failed
    BY <2>1 DEF PInv, Ending
  <2>3. Ending'
    BY <2>1, <2>2 DEF Ending
  <2>4. UNCHANGED delivered \/ \E p : delivered' = Append(delivered, p)
    BY <1>2 DEF ReadsError, HasHeader, Delivers
  <2>5. /\ delivered \in Seq([type : Byte, payload : Seq(Byte)])
        /\ delivered' \in Seq([type : Byte, payload : Seq(Byte)])
    BY <1>2, NextTyped DEF PInv, TypeOK, Next
  <2>6. /\ Len(delivered) \in Nat /\ DOMAIN delivered = 1 .. Len(delivered)
        /\ DOMAIN delivered' = 1 .. Len(delivered')
    BY <2>5, LenProperties
  <2>7. ASSUME ~overlapped, NEW k \in DOMAIN delivered' PROVE Arrived(k)' \/ k = Len(delivered')
    <3>1. \A j \in DOMAIN delivered : Arrived(j)
      BY <2>2, <2>7 DEF PInv, InStep
    <3>2. CASE k \in DOMAIN delivered /\ delivered'[k] = delivered[k]
      BY <2>1, <3>1, <3>2 DEF Arrived
    <3>3. (k \in DOMAIN delivered /\ delivered'[k] = delivered[k]) \/ k = Len(delivered')
      <4>1. CASE UNCHANGED delivered
        BY <2>7, <4>1
      <4>2. CASE \E p : delivered' = Append(delivered, p)
        <5>1. PICK p : delivered' = Append(delivered, p)
          BY <4>2
        <5>2. /\ Len(delivered') = Len(delivered) + 1
              /\ \A j \in 1 .. Len(delivered) : delivered'[j] = delivered[j]
          BY <2>5, <5>1
        <5>3. k \in 1 .. Len(delivered) \/ k = Len(delivered')
          BY <2>6, <2>7, <5>2
        <5>4. QED BY <2>6, <5>2, <5>3
      <4>3. QED BY <2>4, <4>1, <4>2
    <3>4. QED BY <3>2, <3>3
  <2>8. QED BY <2>1, <2>3, <2>7 DEF InStep
<1>3. QED BY <1>1, <1>2

LEMMA NextInStep == PInv /\ [Next]_vars => PInv'
<1>1. SUFFICES ASSUME PInv, [Next]_vars PROVE Ending' /\ InStep'
  BY NextTyped DEF PInv
<1>2. CASE UNCHANGED vars
  <2>1. UNCHANGED <<left, order, overlapped, wire, closed, error, reader, buffer, got, delivered, failed>>
    BY <1>2 DEF vars, writerVars, readerVars
  <2>2. Stream => Stream'
    <3>1. Taken' = Taken
      BY <2>1 DEF Taken
    <3>2. \A rest \in Seq(Nat) : Owed(rest) => Owed(rest)'
      BY <2>1 DEF Owed
    <3>3. QED BY <2>1, <3>1, <3>2 DEF Stream
  <2>3. \A k \in DOMAIN delivered : Arrived(k) => Arrived(k)'
    BY <2>1 DEF Arrived
  <2>4. QED BY <1>1, <2>1, <2>2, <2>3 DEF PInv, Ending, InStep
<1>3. CASE Next
  BY <1>1, <1>3, WritesInStep, ReadsInStep, ClosesInStep, EndsInStep DEF Next
<1>4. QED BY <1>1, <1>2, <1>3

LEMMA StreamInvariant == Spec => []PInv
<1>1. Init => PInv
  BY InitTyped, InitInStep DEF PInv
<1>2. QED BY <1>1, NextInStep, PTL DEF Spec

LEMMA ArrivedIsDecoded ==
    ASSUME PInv, NEW k \in DOMAIN delivered, Arrived(k)
    PROVE  k \in DOMAIN order /\ Decoded[k] = order[k]
<1>1. k \in DOMAIN order /\ order[k] \in Item /\ Fits(order[k])
  BY DEF PInv, TypeOK, Scripted, Arrived
<1>2. Decode(Sign(Request(order[k]), order[k].user)) = order[k]
  BY <1>1, SignedRoundTrip DEF Fits
<1>3. Decoded[k] = Decode(delivered[k])
  BY DEF Decoded
<1>4. QED BY <1>1, <1>2, <1>3 DEF Arrived

\* A connection that ends, however it does, adds at most one packet that nobody
\* wrote, after all others, and only when it was reset: read_packet never
\* returns half a packet (socket.cpp), as long as packets are not mixed.
THEOREM ForgesOneAtMost == Spec => []OneForgedAtMost
<1>1. PInv => OneForgedAtMost
  <2>1. SUFFICES ASSUME PInv, ~overlapped, NEW k \in DOMAIN delivered
                 PROVE  \/ k \in DOMAIN order /\ Decoded[k] = order[k]
                        \/ failed /\ k = Len(delivered)
    BY DEF OneForgedAtMost
  <2>2. Arrived(k) \/ (failed /\ k = Len(delivered))
    BY <2>1 DEF PInv, InStep
  <2>3. QED BY <2>1, <2>2, ArrivedIsDecoded
<1>2. QED BY <1>1, StreamInvariant, PTL

-----------------------------------------------------------------------------
(* The connection as a pipe.                                               *)

LEMMA DecodesOneMore ==
    ASSUME NEW S, NEW s \in Seq(S), NEW x \in S
    PROVE  [k \in DOMAIN Append(s, x) |-> Decode(Append(s, x)[k])]
              = Append([k \in DOMAIN s |-> Decode(s[k])], Decode(x))
<1>1. PICK n \in Nat : n = Len(s) /\ DOMAIN s = 1 .. n
  BY LenProperties
<1>2. PICK t \in Seq(S) : /\ t = Append(s, x) /\ DOMAIN t = 1 .. n + 1 /\ t[n + 1] = x
                          /\ \A k \in 1 .. n : t[k] = s[k]
  <2>1. /\ Append(s, x) \in Seq(S) /\ Len(Append(s, x)) = n + 1 /\ Append(s, x)[n + 1] = x
        /\ \A k \in 1 .. n : Append(s, x)[k] = s[k]
    BY <1>1, AppendProperties
  <2>2. DOMAIN Append(s, x) = 1 .. n + 1
    BY <2>1, LenProperties
  <2>3. QED BY <2>1, <2>2
<1>3. PICK D : D = {Decode(y) : y \in S}
  OBVIOUS
<1>4. PICK a : a = [k \in 1 .. n |-> Decode(s[k])]
  OBVIOUS
<1>5. a \in Seq(D) /\ Len(a) = n /\ \A k \in 1 .. n : a[k] = Decode(s[k])
  <2>1. \A k \in 1 .. n : s[k] \in S
    BY <1>1, LenProperties
  <2>2. a \in [1 .. n -> D]
    BY <1>3, <1>4, <2>1
  <2>3. QED BY <1>4, <2>2
<1>6. PICK e \in D : e = Decode(x)
  BY <1>3
<1>7. PICK b : b = [k \in 1 .. n + 1 |-> Decode(t[k])]
  OBVIOUS
<1>8. b \in Seq(D) /\ Len(b) = n + 1 /\ \A k \in 1 .. n + 1 : b[k] = Decode(t[k])
  <2>1. \A k \in 1 .. n + 1 : t[k] \in S
    BY <1>2, LenProperties
  <2>2. b \in [1 .. n + 1 -> D]
    BY <1>3, <1>7, <2>1
  <2>3. QED BY <1>7, <2>2
<1>9. /\ Append(a, e) \in Seq(D) /\ Len(Append(a, e)) = n + 1 /\ Append(a, e)[n + 1] = e
      /\ \A k \in 1 .. n : Append(a, e)[k] = a[k]
  BY <1>5, AppendProperties
<1>10. ASSUME NEW k \in 1 .. n + 1 PROVE b[k] = Append(a, e)[k]
  <2>1. CASE k = n + 1
    BY <1>2, <1>6, <1>8, <1>9, <2>1
  <2>2. CASE k # n + 1
    <3>1. k \in 1 .. n
      BY <1>10, <2>2
    <3>2. b[k] = Decode(t[k]) /\ t[k] = s[k] /\ a[k] = Decode(s[k]) /\ Append(a, e)[k] = a[k]
      BY <1>2, <1>5, <1>8, <1>9, <3>1
    <3>3. QED BY <3>2
  <2>3. QED BY <2>1, <2>2
<1>11. b = Append(a, e)
  BY <1>8, <1>9, <1>10, SeqEqual
<1>12. QED BY <1>1, <1>2, <1>4, <1>6, <1>7, <1>11

LEMMA BehindOneMore ==
    ASSUME NEW S, NEW q \in Seq(S), NEW i \in S, NEW d \in Nat, d <= Len(q)
    PROVE  SubSeq(Append(q, i), d + 1, Len(Append(q, i))) = Append(SubSeq(q, d + 1, Len(q)), i)
<1>1. PICK m \in Nat : Len(q) = d + m
  <2>1. Len(q) \in Nat
    BY LenProperties
  <2>2. Len(q) - d \in Nat /\ Len(q) = d + (Len(q) - d)
    BY <2>1
  <2>3. QED BY <2>2
<1>2. \A k \in 1 .. d + m : q[k] \in S
  BY <1>1, LenProperties
<1>3. PICK p \in Seq(S) : /\ p = Append(q, i) /\ Len(p) = d + m + 1 /\ p[d + m + 1] = i
                          /\ \A k \in 1 .. d + m : p[k] = q[k]
  <2>1. /\ Append(q, i) \in Seq(S) /\ Len(Append(q, i)) = d + m + 1 /\ Append(q, i)[d + m + 1] = i
        /\ \A k \in 1 .. d + m : Append(q, i)[k] = q[k]
    BY <1>1, AppendProperties
  <2>2. QED BY <2>1
<1>4. \A k \in 1 .. d + m + 1 : p[k] \in S
  BY <1>3, LenProperties
<1>5. PICK u \in Seq(S) : /\ u = SubSeq(q, d + 1, d + m) /\ Len(u) = m
                          /\ \A k \in 1 .. m : u[k] = q[d + k]
  <2>1. \A k \in d + 1 .. d + m : q[k] \in S
    BY <1>2
  <2>2. /\ SubSeq(q, d + 1, d + m) \in Seq(S)
        /\ Len(SubSeq(q, d + 1, d + m)) = IF d + 1 <= d + m THEN d + m - (d + 1) + 1 ELSE 0
        /\ \A k \in 1 .. d + m - (d + 1) + 1 : SubSeq(q, d + 1, d + m)[k] = q[d + 1 + k - 1]
    BY <2>1, SubSeqProperties
  <2>3. Len(SubSeq(q, d + 1, d + m)) = m
    BY <2>2
  <2>4. ASSUME NEW k \in 1 .. m PROVE SubSeq(q, d + 1, d + m)[k] = q[d + k]
    <3>1. k \in 1 .. d + m - (d + 1) + 1 /\ d + 1 + k - 1 = d + k
      BY <2>4
    <3>2. QED BY <2>2, <3>1
  <2>5. QED BY <2>2, <2>3, <2>4
<1>6. PICK v \in Seq(S) : /\ v = SubSeq(p, d + 1, d + m + 1) /\ Len(v) = m + 1
                          /\ \A k \in 1 .. m + 1 : v[k] = p[d + k]
  <2>1. \A k \in d + 1 .. d + m + 1 : p[k] \in S
    BY <1>4
  <2>2. /\ SubSeq(p, d + 1, d + m + 1) \in Seq(S)
        /\ Len(SubSeq(p, d + 1, d + m + 1)) = IF d + 1 <= d + m + 1 THEN d + m + 1 - (d + 1) + 1 ELSE 0
        /\ \A k \in 1 .. d + m + 1 - (d + 1) + 1 : SubSeq(p, d + 1, d + m + 1)[k] = p[d + 1 + k - 1]
    BY <2>1, SubSeqProperties
  <2>3. Len(SubSeq(p, d + 1, d + m + 1)) = m + 1
    BY <2>2
  <2>4. ASSUME NEW k \in 1 .. m + 1 PROVE SubSeq(p, d + 1, d + m + 1)[k] = p[d + k]
    <3>1. k \in 1 .. d + m + 1 - (d + 1) + 1 /\ d + 1 + k - 1 = d + k
      BY <2>4
    <3>2. QED BY <2>2, <3>1
  <2>5. QED BY <2>2, <2>3, <2>4
<1>7. /\ Append(u, i) \in Seq(S) /\ Len(Append(u, i)) = m + 1 /\ Append(u, i)[m + 1] = i
      /\ \A k \in 1 .. m : Append(u, i)[k] = u[k]
  <2>1. /\ Append(u, i) \in Seq(S) /\ Len(Append(u, i)) = Len(u) + 1
        /\ Append(u, i)[Len(u) + 1] = i /\ \A k \in 1 .. Len(u) : Append(u, i)[k] = u[k]
    BY AppendProperties
  <2>2. QED BY <1>5, <2>1
<1>8. ASSUME NEW k \in 1 .. m + 1 PROVE v[k] = Append(u, i)[k]
  <2>1. CASE k = m + 1
    <3>1. d + k = d + m + 1
      BY <2>1
    <3>2. QED BY <1>3, <1>6, <1>7, <2>1, <3>1
  <2>2. CASE k # m + 1
    <3>1. k \in 1 .. m /\ d + k \in 1 .. d + m
      BY <1>8, <2>2
    <3>2. QED BY <1>3, <1>5, <1>6, <1>7, <3>1
  <2>3. QED BY <2>1, <2>2
<1>9. v = Append(u, i)
  BY <1>6, <1>7, <1>8, SeqEqual
<1>10. QED BY <1>1, <1>3, <1>5, <1>6, <1>9

LEMMA BehindOneLess ==
    ASSUME NEW S, NEW q \in Seq(S), NEW d \in Nat, d + 1 <= Len(q)
    PROVE  /\ SubSeq(q, d + 1, Len(q)) # << >>
           /\ Head(SubSeq(q, d + 1, Len(q))) = q[d + 1]
           /\ Tail(SubSeq(q, d + 1, Len(q))) = SubSeq(q, d + 1 + 1, Len(q))
<1>1. Len(q) \in Nat /\ \A k \in 1 .. Len(q) : q[k] \in S
  BY LenProperties
<1>2. d + 1 \in 1 .. Len(q) /\ Len(q) \in d + 1 .. Len(q)
  BY <1>1
<1>3. Len(SubSeq(q, d + 1, Len(q))) > 0
  <2>1. \A k \in d + 1 .. Len(q) : q[k] \in S
    BY <1>1
  <2>2. Len(SubSeq(q, d + 1, Len(q))) = IF d + 1 <= Len(q) THEN Len(q) - (d + 1) + 1 ELSE 0
    BY <1>1, <2>1, SubSeqProperties
  <2>3. QED BY <1>1, <2>2
<1>4. SubSeq(q, d + 1, Len(q)) # << >>
  BY <1>3
<1>5. QED BY <1>2, <1>4, HeadTailOfSubSeq

LEMMA StepRefines ==
    ASSUME PInv, PInv', [Next]_vars, ~overlapped', ~failed'
    PROVE  P!Next \/ UNCHANGED <<Unread, Decoded>>
<1>1. /\ order \in Seq(Item) /\ delivered \in Seq([type : Byte, payload : Seq(Byte)])
      /\ Len(delivered) \in Nat /\ Len(order) \in Nat
  BY LenProperties DEF PInv, TypeOK
<1>2. ASSUME UNCHANGED <<order, delivered>> PROVE UNCHANGED <<Unread, Decoded>>
  BY <1>2 DEF Unread, Decoded
<1>3. ~overlapped /\ ~failed /\ ~ReadsError
  <2>1. ASSUME NEW w \in Writer, Writes(w) PROVE ~overlapped /\ ~failed
    <3>1. /\ overlapped' = (overlapped \/ \E v \in Writer \ {w} : left[v] # << >>)
          /\ failed' = failed
      BY <2>1 DEF Writes
    <3>2. QED BY <3>1
  <2>2. ~ReadsError
    BY DEF ReadsError
  <2>3. Closes \/ Reads \/ ReadsEnd \/ UNCHANGED vars => UNCHANGED <<overlapped, failed>>
    BY DEF Closes, Reads, ReadsEnd, vars, writerVars
  <2>4. QED BY <2>1, <2>2, <2>3 DEF Next
<1>4. Len(delivered) <= Len(order) /\ Len(delivered') <= Len(order')
  BY <1>3 DEF PInv, InStep
<1>5. ASSUME NEW w \in Writer, Writes(w) PROVE P!Next \/ UNCHANGED <<Unread, Decoded>>
  <2>1. UNCHANGED delivered
    BY <1>5 DEF Writes, readerVars
  <2>2. \/ todo[w] # << >> /\ order' = Append(order, Head(todo[w]))
        \/ UNCHANGED order
    BY <1>5, WritesBytes DEF PInv
  <2>3. CASE todo[w] # << >> /\ order' = Append(order, Head(todo[w]))
    <3>1. PICK i \in Asked : i = Head(todo[w]) /\ i \in Item
      <4>1. todo[w] \in Seq(Item)
        BY <1>5 DEF PInv, TypeOK
      <4>2. Head(todo[w]) \in Item /\ Head(todo[w]) = todo[w][1] /\ 1 \in DOMAIN todo[w]
        BY <2>3, <4>1
      <4>3. QED BY <1>5, <4>2 DEF PInv, Scripted
    <3>2. Unread' = Append(Unread, i)
      <4>1. Len(delivered) \in Nat /\ Len(delivered) <= Len(order)
        BY <1>1, <1>4
      <4>2. SubSeq(Append(order, i), Len(delivered) + 1, Len(Append(order, i)))
               = Append(SubSeq(order, Len(delivered) + 1, Len(order)), i)
        BY <1>1, <3>1, <4>1, BehindOneMore
      <4>3. QED BY <2>1, <2>3, <3>1, <4>2 DEF Unread
    <3>3. UNCHANGED Decoded
      BY <2>1 DEF Decoded
    <3>4. QED BY <3>1, <3>2, <3>3 DEF P!Next, P!Write
  <2>4. QED BY <1>2, <2>1, <2>2, <2>3
<1>6. ASSUME Reads PROVE P!Next \/ UNCHANGED <<Unread, Decoded>>
  <2>1. UNCHANGED order
    BY <1>6 DEF Reads, writerVars
  <2>2. UNCHANGED delivered \/ \E x : delivered' = Append(delivered, x)
    BY <1>6 DEF Reads, HasHeader, Delivers
  <2>3. CASE \E x : delivered' = Append(delivered, x)
    <3>1. PICK x : delivered' = Append(delivered, x)
      BY <2>3
    <3>2. PICK d \in Nat : d = Len(delivered)
      BY <1>1
    <3>3. /\ delivered' \in Seq([type : Byte, payload : Seq(Byte)])
          /\ Len(delivered') = d + 1 /\ delivered'[d + 1] = x
          /\ DOMAIN delivered' = 1 .. d + 1
      <4>1. delivered' \in Seq([type : Byte, payload : Seq(Byte)])
        BY DEF PInv, TypeOK
      <4>2. Len(delivered') = d + 1 /\ delivered'[d + 1] = x
        BY <1>1, <3>1, <3>2
      <4>3. DOMAIN delivered' = 1 .. Len(delivered')
        BY <4>1, LenProperties
      <4>4. QED BY <4>1, <4>2, <4>3
    <3>4. d + 1 <= Len(order)
      BY <1>4, <2>1, <3>3
    <3>5. Arrived(d + 1)'
      <4>1. d + 1 \in DOMAIN delivered'
        BY <3>3
      <4>2. QED BY <4>1 DEF PInv, InStep
    <3>6. /\ d + 1 \in DOMAIN order
          /\ x = Sign(Request(order[d + 1]), order[d + 1].user)
      BY <2>1, <3>3, <3>5 DEF Arrived
    <3>7. order[d + 1] \in Item /\ Fits(order[d + 1])
      BY <1>1, <3>6 DEF PInv, Scripted
    <3>8. Decode(x) = order[d + 1]
      BY <3>6, <3>7, SignedRoundTrip DEF Fits
    <3>9. x \in [type : Byte, payload : Seq(Byte)]
      <4>1. d + 1 \in 1 .. Len(delivered')
        BY <3>3
      <4>2. QED BY <3>3, <4>1, LenProperties
    <3>10. Decoded' = Append(Decoded, order[d + 1])
      BY <1>1, <3>1, <3>8, <3>9, DecodesOneMore DEF Decoded
    <3>11. /\ SubSeq(order, d + 1, Len(order)) # << >>
           /\ Head(SubSeq(order, d + 1, Len(order))) = order[d + 1]
           /\ Tail(SubSeq(order, d + 1, Len(order))) = SubSeq(order, d + 1 + 1, Len(order))
      BY <1>1, <3>4, BehindOneLess
    <3>12. Unread # << >> /\ Head(Unread) = order[d + 1] /\ Unread' = Tail(Unread)
      BY <2>1, <3>2, <3>3, <3>11 DEF Unread
    <3>13. QED BY <3>10, <3>12 DEF P!Next, P!Read
  <2>4. QED BY <1>2, <2>1, <2>2, <2>3
<1>7. ASSUME ReadsEnd \/ Closes PROVE UNCHANGED <<Unread, Decoded>>
  BY <1>2, <1>7 DEF ReadsEnd, Closes, writerVars, readerVars
<1>8. CASE UNCHANGED vars
  BY <1>2, <1>8 DEF vars, writerVars, readerVars
<1>9. QED BY <1>3, <1>5, <1>6, <1>7, <1>8 DEF Next

\* Until packets of two threads are mixed or a read() fails, the connection is
\* a pipe of requests: however write() and read() cut them up, each arrives
\* whole, once, in order, with its user, name and data (socket.cpp).
THEOREM ConnectionIsPipe == Spec => PipeUntilSpoiled
<1>1. Init => P!Init
  <2>1. SUFFICES ASSUME Init PROVE Unread = << >> /\ Decoded = << >>
    BY DEF P!Init
  <2>2. delivered = << >> /\ order = << >>
    BY <2>1 DEF Init
  <2>3. Unread = << >> /\ DOMAIN delivered = {}
    BY <2>2 DEF Unread
  <2>4. Decoded = << >>
    BY <2>3 DEF Decoded
  <2>5. QED BY <2>3, <2>4
<1>2. PInv /\ PInv' /\ [Next]_vars => [P!Next \/ overlapped' \/ failed']_<<Unread, Decoded>>
  BY StepRefines
<1>3. QED BY <1>1, <1>2, StreamInvariant, PTL DEF Spec, PipeUntilSpoiled

=============================================================================
