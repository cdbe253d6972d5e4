--------------------------- MODULE ProtocolProofs ---------------------------
(***************************************************************************)
(* What is packed is unpacked and a damaged byte is noticed, for payloads   *)
(* and structures of every size.                                           *)
(***************************************************************************)
EXTENDS Protocol, SequenceTheorems, WellFoundedInduction, TLAPS

\* The checksum of the first len bytes depends on those bytes alone, whatever
\* the data area has behind them: the loop of calculate_checksum.
LEMMA ChecksumOfPrefix ==
  ASSUME NEW len \in Nat, NEW data, NEW area,
         \A i \in 1..len : area[i] = data[i]
  PROVE  calculate_checksum(area, len) = calculate_checksum(data, len)
<1>1. \A f : [i \in 0..len |-> IF i = 0 THEN 0 ELSE (f[i - 1] + area[i]) % SumSize]
           = [i \in 0..len |-> IF i = 0 THEN 0 ELSE (f[i - 1] + data[i]) % SumSize]
  <2> TAKE f
  <2>1. ASSUME NEW i \in 0..len, i # 0 PROVE area[i] = data[i]
    BY <2>1
  <2> QED BY <2>1
<1>2. \A f : (f = [i \in 0..len |-> IF i = 0 THEN 0 ELSE (f[i - 1] + area[i]) % SumSize])
         <=> (f = [i \in 0..len |-> IF i = 0 THEN 0 ELSE (f[i - 1] + data[i]) % SumSize])
  BY <1>1
<1>3. (CHOOSE f : f = [i \in 0..len |-> IF i = 0 THEN 0 ELSE (f[i - 1] + area[i]) % SumSize])
    = (CHOOSE f : f = [i \in 0..len |-> IF i = 0 THEN 0 ELSE (f[i - 1] + data[i]) % SumSize])
  BY <1>2
<1> QED BY <1>3 DEF calculate_checksum

\* The length in the header of a packed packet gives the payload's back: the
\* unsigned subtraction does not wrap.
LEMMA LengthOfPacked ==
  ASSUME NEW op, NEW n \in 0..MaxDataSize, NEW payload \in [1..n -> Byte]
  PROVE  /\ Len(payload) = n
         /\ DataLength(pack_request(op, payload)) = n
<1>1. Len(payload) = n
  OBVIOUS
<1>2. n \in 0..(SizeT - 1)
  BY ProtocolAssumption
<1>3. (HeaderSize + n) - HeaderSize = n
  BY ProtocolAssumption
<1> QED BY <1>1, <1>2, <1>3, ProtocolAssumption DEF DataLength, pack_request

\* The receiver's sum over the data area is the sum the sender has stored.
LEMMA PackedIsVerified ==
  ASSUME NEW op, NEW n \in 0..MaxDataSize, NEW payload \in [1..n -> Byte]
  PROVE  verify_packet_checksum(pack_request(op, payload))
<1> DEFINE p == pack_request(op, payload)
<1>1. Len(payload) = n /\ DataLength(p) = n
  BY LengthOfPacked
<1>2. \A i \in 1..n : p.data[i] = payload[i]
  BY <1>1, ProtocolAssumption DEF pack_request
<1>3. calculate_checksum(p.data, n) = calculate_checksum(payload, n)
  BY <1>2, ChecksumOfPrefix
<1>4. p.checksum = calculate_checksum(payload, n)
  BY <1>1 DEF pack_request
<1> QED BY <1>1, <1>3, <1>4 DEF verify_packet_checksum

\* unpack_request after pack_request returns the payload, whatever its bytes,
\* its length, the width of the checksum and the size of the data area; into a
\* smaller structure it refuses.  TLC evaluates RoundTrip on small values.
THEOREM PackedIsUnpacked == RoundTrip
<1> SUFFICES ASSUME NEW op \in Opcodes, NEW payload \in Payloads,
                    NEW size \in 0..MaxDataSize
             PROVE  unpack_request(pack_request(op, payload), size) =
                      IF Len(payload) <= size THEN Unpacked(payload) ELSE Refused
  BY DEF RoundTrip
<1>1. PICK n \in 0..MaxDataSize : payload \in [1..n -> Byte]
  BY DEF Payloads
<1> DEFINE p == pack_request(op, payload)
<1>2. Len(payload) = n /\ DataLength(p) = n
  BY <1>1, LengthOfPacked
<1>3. verify_packet_checksum(p)
  BY <1>1, PackedIsVerified
<1>4. SubSeq(p.data, 1, n) = payload
  <2>1. p.data \in Seq(Byte) /\ Len(p.data) = MaxDataSize
    BY <1>1, <1>2, ProtocolAssumption DEF pack_request
  <2>2. /\ SubSeq(p.data, 1, n) \in Seq(Byte)
        /\ Len(SubSeq(p.data, 1, n)) = n
        /\ \A i \in 1..n : SubSeq(p.data, 1, n)[i] = p.data[i]
    BY <2>1, ProtocolAssumption
  <2>3. \A i \in 1..n : p.data[i] = payload[i]
    BY <1>2, ProtocolAssumption DEF pack_request
  <2>4. payload \in Seq(Byte)
    BY <1>1
  <2> QED BY <1>2, <2>2, <2>3, <2>4, SeqEqual
<1> QED BY <1>2, <1>3, <1>4 DEF unpack_request
-----------------------------------------------------------------------------
(***************************************************************************)
(* A damaged byte changes the sum.                                         *)
(***************************************************************************)

\* What fails for some length fails for a least one.
LEMMA LeastOf ==
  ASSUME NEW S \in SUBSET Nat, S # {} PROVE \E m \in S : \A k \in S : m <= k
<1>1. IsWellFoundedOn(OpToRel(<, Nat), Nat)
  BY NatLessThanWellFounded
<1>2. \A m, k \in Nat : k < m => <<k, m>> \in OpToRel(<, Nat)
  BY Zenon DEF OpToRel
<1>3. PICK R : IsWellFoundedOn(R, Nat) /\ \A m, k \in Nat : k < m => <<k, m>> \in R
  BY <1>1, <1>2, Zenon
<1>4. PICK m \in S : \A k \in S : ~(<<k, m>> \in R)
  BY <1>3, WFMin
<1>5. m \in Nat /\ \A k \in S : k \in Nat /\ ~(k < m)
  BY <1>3, <1>4
<1> QED
  BY <1>5

\* What adding one byte does to a variable that wraps.
Wrapped(x, d) == IF x + d < SumSize THEN x + d ELSE x + d - SumSize

LEMMA SumMod ==
  ASSUME NEW x \in 0..(SumSize - 1), NEW d \in 0..(SumSize - 1)
  PROVE  (x + d) % SumSize = Wrapped(x, d)
<1>1. SumSize \in Nat \ {0} BY ProtocolAssumption
<1>2. CASE x + d < SumSize BY <1>1, <1>2 DEF Wrapped
<1>3. CASE x + d >= SumSize BY <1>1, <1>3 DEF Wrapped
<1> QED BY <1>1, <1>2, <1>3

\* The loop adds one byte after the other: the sums of all prefixes.
LEMMA ChecksumLoop ==
  ASSUME NEW len \in Nat, NEW data \in [1..len -> Byte]
  PROVE  \E sum \in [0..len -> 0..(SumSize - 1)] :
           /\ calculate_checksum(data, len) = sum[len]
           /\ sum[0] = 0 /\ \A i \in 1..len : sum[i] = (sum[i - 1] + data[i]) % SumSize
<1> DEFINE Adds(n, f) == f = [i \in 0..n |-> IF i = 0 THEN 0 ELSE (f[i - 1] + data[i]) % SumSize]
<1>0. SumSize \in Nat \ {0} /\ \A i \in 1..len : data[i] \in Nat
  BY ProtocolAssumption
<1>1. ASSUME NEW n \in 0..len, NEW f, Adds(n, f)
      PROVE  /\ DOMAIN f = 0..n /\ f[0] = 0
             /\ \A i \in 1..n : f[i] = (f[i - 1] + data[i]) % SumSize
  BY <1>1
<1>2. \A n \in 0..len : \E f : Adds(n, f)
  <2> DEFINE Bad == {n \in 0..len : ~\E f : Adds(n, f)}
  <2> SUFFICES ASSUME Bad # {} PROVE FALSE
    OBVIOUS
  <2>0. Bad \in SUBSET Nat /\ Bad \subseteq 0..len
    OBVIOUS
  <2>1. PICK m \in Bad : \A k \in Bad : m <= k
    <3> HIDE DEF Bad
    <3> QED BY <2>0, LeastOf
  <2>2. m # 0
    <3>1. Adds(0, [i \in 0..0 |-> 0])
      OBVIOUS
    <3> QED
      BY <3>1
  <2>3. m - 1 \in 0..len /\ m - 1 \notin Bad
    <3> HIDE DEF Bad
    <3>1. m \in 0..len
      BY <2>0
    <3> QED BY <2>1, <2>2, <3>1
  <2>4. PICK f : Adds(m - 1, f)
    <3> HIDE DEF Adds
    <3> QED BY <2>3
  <2> DEFINE g == [i \in 0..m |-> IF i = m THEN (f[m - 1] + data[m]) % SumSize ELSE f[i]]
  <2>5. /\ f[0] = 0 /\ \A i \in 1..(m - 1) : f[i] = (f[i - 1] + data[i]) % SumSize
    BY <1>1, <2>3, <2>4
  <2>6. Adds(m, g)
    <3>1. \A i \in 0..m : g[i] = IF i = 0 THEN 0 ELSE (g[i - 1] + data[i]) % SumSize
      BY <2>2, <2>5
    <3> QED
      BY <3>1
  <2> QED
    BY <2>6
<1> DEFINE sum == CHOOSE f : Adds(len, f)
<1>3. Adds(len, sum)
  <2> HIDE DEF Adds
  <2>1. \E f : Adds(len, f)
    BY <1>2
  <2> QED BY <2>1
<1>4. calculate_checksum(data, len) = sum[len]
  BY DEF calculate_checksum
<1> HIDE DEF sum
<1>5. sum[0] = 0 /\ \A i \in 1..len : sum[i] = (sum[i - 1] + data[i]) % SumSize
  BY <1>1, <1>3
<1>6. \A i \in 0..len : sum[i] \in 0..(SumSize - 1)
  <2> DEFINE Bad == {n \in 0..len : sum[n] \notin 0..(SumSize - 1)}
  <2> SUFFICES ASSUME Bad # {} PROVE FALSE
    OBVIOUS
  <2>0. Bad \in SUBSET Nat /\ Bad \subseteq 0..len
    OBVIOUS
  <2>1. PICK m \in Bad : \A k \in Bad : m <= k
    <3> HIDE DEF Bad
    <3> QED BY <2>0, LeastOf
  <2>2. m # 0
    BY <1>0, <1>5
  <2>3. m - 1 \in 0..len /\ m - 1 \notin Bad /\ m \in 1..len
    <3> HIDE DEF Bad
    <3>1. m \in 0..len
      BY <2>0
    <3> QED BY <2>1, <2>2, <3>1
  <2>4. sum[m - 1] + data[m] \in Nat
    BY <1>0, <2>3
  <2>5. sum[m] \in 0..(SumSize - 1)
    BY <1>0, <1>5, <2>3, <2>4
  <2> QED
    BY <2>5
<1>7. sum \in [0..len -> 0..(SumSize - 1)]
  BY <1>3, <1>6
<1> QED
  BY <1>4, <1>5, <1>7

\* Equal sums of different numbers were different before, and the reverse.
LEMMA WrappedDiffers ==
  ASSUME NEW x \in Nat, NEW d \in Nat, NEW y \in Nat, NEW e \in Nat,
         x < SumSize, d < SumSize, y < SumSize, e < SumSize,
         Wrapped(x, d) = Wrapped(y, e)
  PROVE  (x = y) <=> (d = e)
<1>1. SumSize \in Nat
  BY ProtocolAssumption
<1>2. CASE x + d < SumSize /\ y + e < SumSize
  BY <1>1, <1>2 DEF Wrapped
<1>3. CASE x + d < SumSize /\ ~(y + e < SumSize)
  BY <1>1, <1>3 DEF Wrapped
<1>4. CASE ~(x + d < SumSize) /\ y + e < SumSize
  BY <1>1, <1>4 DEF Wrapped
<1>5. CASE ~(x + d < SumSize) /\ ~(y + e < SumSize)
  BY <1>1, <1>5 DEF Wrapped
<1> QED BY <1>2, <1>3, <1>4, <1>5

\* One byte of another value: the sums agree before it and differ from it on,
\* since the same byte added to two different sums leaves them different.
LEMMA DamageMovesSum ==
  ASSUME NEW len \in Nat, NEW data \in [1..len -> Byte], NEW other \in [1..len -> Byte],
         NEW i \in 1..len, data[i] # other[i],
         \A j \in 1..len : j # i => data[j] = other[j]
  PROVE  calculate_checksum(data, len) # calculate_checksum(other, len)
<1>1. PICK s \in [0..len -> 0..(SumSize - 1)] :
        /\ calculate_checksum(data, len) = s[len]
        /\ s[0] = 0 /\ \A k \in 1..len : s[k] = (s[k - 1] + data[k]) % SumSize
  BY ChecksumLoop
<1>2. PICK t \in [0..len -> 0..(SumSize - 1)] :
        /\ calculate_checksum(other, len) = t[len]
        /\ t[0] = 0 /\ \A k \in 1..len : t[k] = (t[k - 1] + other[k]) % SumSize
  BY ChecksumLoop
<1>3. \A k \in 1..len : data[k] \in 0..(SumSize - 1) /\ other[k] \in 0..(SumSize - 1)
  <2>1. SumSize \in Nat /\ \A b \in Byte : b \in Nat /\ b < SumSize
    BY ProtocolAssumption
  <2>2. ASSUME NEW b \in Byte PROVE b \in 0..(SumSize - 1)
    <3>1. b \in Nat /\ b < SumSize /\ SumSize \in Nat
      BY <2>1
    <3> QED BY <3>1
  <2> QED BY <2>2
<1>4. \A k \in 1..len : /\ s[k] = Wrapped(s[k - 1], data[k])
                        /\ t[k] = Wrapped(t[k - 1], other[k])
                        /\ s[k - 1] \in 0..(SumSize - 1) /\ t[k - 1] \in 0..(SumSize - 1)
  <2> TAKE k \in 1..len
  <2>1. k - 1 \in 0..len
    OBVIOUS
  <2>2. s[k - 1] \in 0..(SumSize - 1) /\ t[k - 1] \in 0..(SumSize - 1)
    BY <2>1
  <2>3. s[k] = (s[k - 1] + data[k]) % SumSize /\ t[k] = (t[k - 1] + other[k]) % SumSize
    BY <1>1, <1>2
  <2> QED
    BY <1>3, <2>2, <2>3, SumMod
<1> DEFINE Bad == {k \in 0..len : (s[k] = t[k]) # (k < i)}
<1> SUFFICES ASSUME Bad # {} PROVE FALSE
  <2>1. len \in 0..len /\ ~(len < i)
    OBVIOUS
  <2>2. CASE Bad = {}
    <3>1. len \notin Bad
      BY <2>2
    <3>2. s[len] # t[len]
      BY <2>1, <3>1
    <3> QED BY <1>1, <1>2, <3>2
  <2> QED BY <2>2
<1>5. Bad \in SUBSET Nat /\ Bad \subseteq 0..len
  OBVIOUS
<1>6. PICK m \in Bad : \A k \in Bad : m <= k
  <2> HIDE DEF Bad
  <2> QED BY <1>5, LeastOf
<1>7. m # 0
  BY <1>1, <1>2
<1>8. m \in 1..len /\ m - 1 \in 0..len /\ m - 1 \notin Bad
  <2> HIDE DEF Bad
  <2>1. m \in 0..len
    BY <1>5
  <2> QED BY <1>6, <1>7, <2>1
<1>9. (s[m - 1] = t[m - 1]) <=> (m - 1 < i)
  BY <1>8
<1>10. s[m] = Wrapped(s[m - 1], data[m]) /\ t[m] = Wrapped(t[m - 1], other[m])
  BY <1>4, <1>8
<1>11. /\ s[m - 1] \in Nat /\ s[m - 1] < SumSize /\ t[m - 1] \in Nat /\ t[m - 1] < SumSize
       /\ data[m] \in Nat /\ data[m] < SumSize /\ other[m] \in Nat /\ other[m] < SumSize
  <2>1. /\ s[m - 1] \in 0..(SumSize - 1) /\ t[m - 1] \in 0..(SumSize - 1)
        /\ data[m] \in 0..(SumSize - 1) /\ other[m] \in 0..(SumSize - 1)
    BY <1>3, <1>4, <1>8
  <2>2. SumSize \in Nat
    BY ProtocolAssumption
  <2>3. \A z \in 0..(SumSize - 1) : z \in Nat /\ z < SumSize
    BY <2>2
  <2> HIDE DEF Bad
  <2> QED BY <2>1, <2>3, Zenon
<1>12. CASE m < i
  BY <1>8, <1>9, <1>10, <1>12
<1>13. CASE m = i
  <2>1. s[m - 1] = t[m - 1] /\ data[m] # other[m]
    BY <1>9, <1>13
  <2>2. s[m] # t[m]
    BY <1>10, <1>11, <2>1, WrappedDiffers
  <2> QED BY <1>13, <2>2
<1>14. CASE m > i
  <2>1. s[m - 1] # t[m - 1] /\ data[m] = other[m]
    BY <1>8, <1>9, <1>14
  <2>2. s[m] # t[m]
    BY <1>10, <1>11, <2>1, WrappedDiffers
  <2> QED BY <1>14, <2>2
<1> QED
  BY <1>8, <1>12, <1>13, <1>14

\* One wrong byte anywhere in the payload of a packed packet: the sum over the
\* data area is not the one in the header, whatever the sizes and however often
\* the sum wraps.  It takes that a byte is smaller than the sum's range.
THEOREM DamageIsNoticed == DamageNoticed
<1> SUFFICES ASSUME NEW op \in Opcodes, NEW payload \in Payloads,
                    NEW i \in 1..Len(payload), NEW b \in Byte \ {payload[i]}
             PROVE  ~verify_packet_checksum([pack_request(op, payload) EXCEPT !.data[i] = b])
  BY DEF DamageNoticed
<1>1. PICK n \in 0..MaxDataSize : payload \in [1..n -> Byte]
  BY DEF Payloads
<1> DEFINE p == pack_request(op, payload)
           q == [p EXCEPT !.data[i] = b]
           other == [payload EXCEPT ![i] = b]
<1>2. Len(payload) = n /\ DataLength(p) = n /\ i \in 1..n
  BY <1>1, LengthOfPacked
<1>3. p.checksum = calculate_checksum(payload, n)
  BY <1>2 DEF pack_request
<1>4. /\ q.checksum = p.checksum /\ q.length = p.length
      /\ q.data = [p.data EXCEPT ![i] = b]
  BY DEF pack_request
<1>5. \A j \in 1..n : p.data[j] = payload[j] /\ j \in DOMAIN p.data
  BY <1>2, ProtocolAssumption DEF pack_request
<1>6. \A j \in 1..n : q.data[j] = other[j]
  <2> TAKE j \in 1..n
  <2>1. q.data[j] = IF j = i THEN b ELSE p.data[j]
    <3>1. p.data = [k \in 1..MaxDataSize |-> p.data[k]]
      BY DEF pack_request
    <3> HIDE DEF p, q
    <3> QED BY <1>4, <1>5, <3>1
  <2>2. other[j] = IF j = i THEN b ELSE payload[j]
    BY <1>1, <1>2
  <2> HIDE DEF p, q, other
  <2> QED BY <1>5, <2>1, <2>2
<1>7. calculate_checksum(q.data, n) = calculate_checksum(other, n)
  <2> HIDE DEF p, q, other
  <2>1. n \in Nat
    OBVIOUS
  <2> QED BY <1>6, <2>1, ChecksumOfPrefix
<1>8. /\ other \in [1..n -> Byte] /\ payload[i] # other[i]
      /\ \A j \in 1..n : j # i => payload[j] = other[j]
  <2>1. b \in Byte /\ b # payload[i]
    OBVIOUS
  <2> HIDE DEF p, q
  <2>2. other[i] = b /\ other \in [1..n -> Byte]
    BY <1>1, <1>2, <2>1
  <2>3. \A j \in 1..n : j # i => payload[j] = other[j]
    BY <1>1, <1>2
  <2> HIDE DEF other
  <2> QED BY <2>1, <2>2, <2>3
<1>9. calculate_checksum(payload, n) # calculate_checksum(other, n)
  <2> HIDE DEF p, q, other
  <2>1. n \in Nat
    OBVIOUS
  <2> QED BY <1>1, <1>2, <1>8, <2>1, DamageMovesSum
<1>10. DataLength(q) = n
  BY <1>2, <1>4 DEF DataLength
<1> QED BY <1>3, <1>4, <1>7, <1>9, <1>10 DEF verify_packet_checksum
=============================================================================
