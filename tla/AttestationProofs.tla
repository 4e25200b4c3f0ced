------------------------- MODULE AttestationProofs --------------------------
(***************************************************************************)
(* What TLAPS proves of Attestation.tla, for every set of nonces and any   *)
(* number of calls: types, and that the S-box stays a permutation.         *)
(***************************************************************************)
EXTENDS Attestation, TLAPS

\* The S-box holds every byte once.
Permutation(s) == \A a, b \in Byte : s[a] = s[b] => a = b

\* The loop over the accesses is left after Accesses rounds; without this k
\* would not stay a byte.
LoopBound == (pc = "mix" => k < Accesses) /\ (pc \in {"rc4_init", "discard"} => calls > 0)

AttInv == TypeOK /\ LoopBound /\ SBoxPermutation

-----------------------------------------------------------------------------
\* A swap of two cells, the same cell included, permutes.
LEMMA SwapPermutes ==
    ASSUME NEW s \in [Byte -> Byte], NEW i \in Byte, NEW j \in Byte
    PROVE  /\ rc4_swap(s, i, j) \in [Byte -> Byte]
           /\ Permutation(s) => Permutation(rc4_swap(s, i, j))
<1>1. rc4_swap(s, i, j) \in [Byte -> Byte]
  BY DEF rc4_swap
<1>2. ASSUME Permutation(s), NEW a \in Byte, NEW b \in Byte,
             rc4_swap(s, i, j)[a] = rc4_swap(s, i, j)[b]
      PROVE  a = b
  <2>1. /\ rc4_swap(s, i, j)[a] = IF a = j THEN s[i] ELSE IF a = i THEN s[j] ELSE s[a]
        /\ rc4_swap(s, i, j)[b] = IF b = j THEN s[i] ELSE IF b = i THEN s[j] ELSE s[b]
    BY DEF rc4_swap
  <2> QED
    BY <1>2, <2>1 DEF Permutation
<1> QED
  BY <1>1, <1>2 DEF Permutation

Generators == [s : [Byte -> Byte], i : Byte, j : Byte]

\* Bytes are integers.
LEMMA ByteFacts ==
    /\ \A x \in Byte : x \in Int
    /\ 0 \in Byte
  BY DEF Byte

\* A value modulo 256 is a byte.
LEMMA ModByte == \A x \in Int : x % 256 \in Byte
  BY DEF Byte

\* rc4_next keeps the generator well formed and its S-box a permutation.
LEMMA NextPermutes ==
    ASSUME NEW g \in Generators
    PROVE  /\ rc4_next(g) \in Generators
           /\ Permutation(g.s) => Permutation(rc4_next(g).s)
<1> DEFINE i == (g.i + 1) % 256
           j == (g.j + g.j + g.s[i]) % 256
<1>1. g.s \in [Byte -> Byte] /\ g.i \in Byte /\ g.j \in Byte
  BY DEF Generators
<1>2. i \in Byte
  <2>1. g.i + 1 \in Int
    BY <1>1, ByteFacts
  <2> QED
    BY <2>1, ModByte
<1> HIDE DEF i
<1>3. j \in Byte
  <2>1. g.s[i] \in Byte
    BY <1>1, <1>2
  <2>2. g.j + g.j + g.s[i] \in Int
    BY <1>1, <2>1, ByteFacts
  <2> QED
    BY <2>2, ModByte
<1>4. rc4_next(g) = [s |-> rc4_swap(g.s, i, j), i |-> i, j |-> j]
  BY DEF rc4_next, i
<1> HIDE DEF j
<1>5. /\ rc4_swap(g.s, i, j) \in [Byte -> Byte]
      /\ Permutation(g.s) => Permutation(rc4_swap(g.s, i, j))
  BY <1>1, <1>2, <1>3, SwapPermutes
<1>6. rc4_next(g) \in Generators
  BY <1>2, <1>3, <1>4, <1>5 DEF Generators
<1>7. rc4_next(g).s = rc4_swap(g.s, i, j)
  BY <1>4
<1> QED
  BY <1>5, <1>6, <1>7

\* What rc4_next returns is a byte.
LEMMA OutByte ==
    ASSUME NEW g \in Generators
    PROVE  rc4_out(g) \in Byte
<1>1. g.s \in [Byte -> Byte] /\ g.s[g.i] \in Int /\ g.s[g.j] \in Int
  BY ByteFacts DEF Generators
<1>2. (g.s[g.i] + g.s[g.j]) % 256 \in Byte
  BY <1>1, ModByte
<1> QED
  BY <1>1, <1>2 DEF rc4_out

\* Three bytes make an address of 17 bits.
LEMMA AddressBits == \A a, b, c \in Byte : Address(a, b, c) \in Addresses
<1> SUFFICES ASSUME NEW a \in Byte, NEW b \in Byte, NEW c \in Byte
             PROVE  Address(a, b, c) \in 0..LastAddress
  BY DEF Addresses
<1>1. /\ a \in Int /\ 0 <= a /\ a <= 255 /\ b \in Int /\ 0 <= b /\ b <= 255
      /\ c % 2 \in 0..1
  BY DEF Byte
<1> DEFINE low == c % 2
<1>2. low \in Int /\ 0 <= low /\ low <= 1
  BY <1>1
<1> HIDE DEF low
<1> DEFINE x == (a * 256 + b) * 2 + low
<1>3. x \in Int /\ 0 <= x /\ x <= 131071
  BY <1>1, <1>2
<1> HIDE DEF x
<1>4. LastAddress \in Int /\ x <= LastAddress
  BY <1>3 DEF LastAddress
<1>5. x \in 0..LastAddress
  BY <1>3, <1>4
<1> QED
  BY <1>5 DEF Address, low, x

LEMMA AddressFacts == NoAddr \in Addresses /\ \A x \in Addresses : x \in Int
<1>1. NoAddr \in Int
  BY DEF NoAddr
<1> QED
  BY <1>1 DEF Addresses

\* The checksum arithmetic stays in a byte.
LEMMA RotateByte == \A x \in Byte : RotateLeft(x) \in Byte
  BY DEF RotateLeft, Byte

-----------------------------------------------------------------------------
LEMMA InitAttInv == Init => AttInv
  BY NoncesAssumption DEF Init, AttInv, TypeOK, LoopBound, SBoxPermutation, Byte, Addresses

LEMMA NextAttInv == AttInv /\ [Next]_vars => AttInv'
<1> SUFFICES ASSUME AttInv, [Next]_vars PROVE AttInv'
  OBVIOUS
<1> USE NoncesAssumption
<1>0. /\ rc4 \in Generators /\ (calls > 0 => Permutation(rc4.s))
      /\ k \in Byte /\ kj \in Byte /\ nonce \in [0..3 -> Byte] /\ nonce \in Nonces
      /\ calls \in 0..MaxCalls /\ byte \in 0..7 /\ sum \in [0..7 -> Byte]
      /\ ret \in Addresses /\ addr.last \in Addresses /\ addr.current \in Addresses
  BY DEF AttInv, TypeOK, SBoxPermutation, Permutation, Generators
<1>1. ASSUME NEW n \in Nonces, Call(n) PROVE AttInv'
  <2> DEFINE id == [b \in Byte |-> b]
  <2>1. id \in [Byte -> Byte] /\ Permutation(id)
    BY DEF Permutation
  <2>2. rc4' = [rc4 EXCEPT !.s = id]
    BY <1>1 DEF Call
  <2> HIDE DEF id
  <2>3. rc4' \in Generators /\ rc4'.s = id
    BY <1>0, <2>1, <2>2 DEF Generators
  <2>4. TypeOK'
    <3>1. sum' \in [0..7 -> Byte] /\ byte' \in 0..7 /\ k' \in Byte /\ kj' \in Byte
      BY <1>1, ByteFacts DEF Call
    <3>2. calls' \in 0..MaxCalls
      BY <1>0, <1>1 DEF Call
    <3>3. ret' \in Addresses /\ addr' \in [current : Addresses, last : Addresses]
      BY <1>1 DEF Call, Addresses
    <3>4. pc' = "rc4_init" /\ nonce' \in Nonces
      BY <1>1 DEF Call
    <3> QED
      BY <2>3, <3>1, <3>2, <3>3, <3>4 DEF TypeOK, Generators
  <2>5. LoopBound'
    BY <1>0, <1>1 DEF Call, LoopBound
  <2> QED
    BY <2>1, <2>3, <2>4, <2>5 DEF AttInv, SBoxPermutation, Permutation
<1>2. ASSUME KeyRound PROVE AttInv'
  <2> DEFINE j == (kj + kj + rc4.s[k] + nonce[k % 4]) % 256
  <2>1. j \in Byte
    <3>1. k % 4 \in 0..3
      BY <1>0 DEF Byte
    <3>2. rc4.s[k] \in Byte /\ nonce[k % 4] \in Byte
      BY <1>0, <3>1 DEF Generators
    <3>3. kj + kj + rc4.s[k] + nonce[k % 4] \in Int
      BY <1>0, <3>2, ByteFacts
    <3> QED
      BY <3>3, ModByte
  <2>2. rc4' = [rc4 EXCEPT !.s = rc4_swap(rc4.s, k, j)] /\ kj' = j
    BY <1>2 DEF KeyRound
  <2> HIDE DEF j
  <2>3. /\ rc4_swap(rc4.s, k, j) \in [Byte -> Byte]
        /\ Permutation(rc4.s) => Permutation(rc4_swap(rc4.s, k, j))
    BY <1>0, <2>1, SwapPermutes DEF Generators
  <2>4. rc4' \in Generators /\ rc4'.s = rc4_swap(rc4.s, k, j)
    BY <1>0, <2>2, <2>3 DEF Generators
  <2>5. k' \in Byte /\ pc' \in {"rc4_init", "discard"}
    BY <1>0, <1>2 DEF KeyRound, Byte
  <2>6. UNCHANGED <<nonce, ret, addr, sum, byte, calls, results>>
    BY <1>2 DEF KeyRound
  <2>7. TypeOK'
    BY <2>1, <2>2, <2>4, <2>5, <2>6 DEF AttInv, TypeOK, Generators
  <2>8. LoopBound'
    BY <1>2, <2>5, <2>6 DEF KeyRound, AttInv, LoopBound
  <2> QED
    BY <1>0, <2>3, <2>4, <2>6, <2>7, <2>8 DEF AttInv, SBoxPermutation, Permutation
<1>3. ASSUME Discard PROVE AttInv'
  <2>1. rc4' \in Generators /\ (Permutation(rc4.s) => Permutation(rc4'.s))
    BY <1>0, <1>3, NextPermutes DEF Discard
  <2>2. k' \in Byte /\ pc' \in {"discard", "next_addr"}
    BY <1>0, <1>3 DEF Discard, Byte
  <2>3. UNCHANGED <<kj, nonce, ret, addr, sum, byte, calls, results>>
    BY <1>3 DEF Discard
  <2>4. TypeOK'
    BY <2>1, <2>2, <2>3 DEF AttInv, TypeOK, Generators
  <2>5. LoopBound'
    BY <1>3, <2>2, <2>3 DEF Discard, AttInv, LoopBound
  <2> QED
    BY <1>0, <2>1, <2>3, <2>4, <2>5 DEF AttInv, SBoxPermutation, Permutation
<1>4. ASSUME NextAddr PROVE AttInv'
  <2> DEFINE g1 == rc4_next(rc4)
             g2 == rc4_next(g1)
             g3 == rc4_next(g2)
             a  == Address(rc4_out(g1), rc4_out(g2), rc4_out(g3))
             outermost == IF ret = NoAddr THEN a ELSE ret
  <2>1. g1 \in Generators /\ (Permutation(rc4.s) => Permutation(g1.s))
    BY <1>0, NextPermutes
  <2>2. g2 \in Generators /\ (Permutation(g1.s) => Permutation(g2.s))
    BY <2>1, NextPermutes
  <2>3. g3 \in Generators /\ (Permutation(g2.s) => Permutation(g3.s))
    BY <2>2, NextPermutes
  <2>4. outermost \in Addresses
    <3>1. rc4_out(g1) \in Byte /\ rc4_out(g2) \in Byte /\ rc4_out(g3) \in Byte
      BY <2>1, <2>2, <2>3, OutByte
    <3>2. a \in Addresses
      BY <3>1, AddressBits
    <3> QED
      BY <1>0, <3>2
  <2>5. /\ rc4' = g3
        /\ \/ /\ addr' = [current |-> outermost,
                          last |-> IF addr.current = NoAddr THEN outermost ELSE addr.current]
              /\ ret' = NoAddr
              /\ pc' = IF k < Accesses THEN "mix" ELSE "done"
           \/ ret' = outermost /\ addr' = addr /\ pc' = pc /\ pc = "next_addr"
    BY <1>4 DEF NextAddr
  <2>6. UNCHANGED <<k, kj, nonce, sum, byte, calls, results>>
    BY <1>4 DEF NextAddr
  <2> HIDE DEF g1, g2, g3, outermost
  <2>7. addr' \in [current : Addresses, last : Addresses] /\ ret' \in Addresses
    <3>1. addr \in [current : Addresses, last : Addresses]
      BY DEF AttInv, TypeOK
    <3> QED
      BY <1>0, <2>4, <2>5, <3>1, AddressFacts
  <2>8. TypeOK'
    BY <2>3, <2>5, <2>6, <2>7 DEF AttInv, TypeOK, Generators
  <2>9. LoopBound'
    BY <2>5, <2>6 DEF LoopBound
  <2> QED
    BY <1>0, <2>1, <2>2, <2>3, <2>5, <2>6, <2>8, <2>9 DEF AttInv, SBoxPermutation, Permutation
<1>5. ASSUME Mix PROVE AttInv'
  <2> DEFINE at == ((byte - 2) % 256) % CHECKSUM_LENGTH
             x == (sum[byte] + (read_xor(sum[at]) + addr.last)) % 256
  <2>1. x \in Byte
    <3>1. at \in 0..7
      BY <1>0 DEF CHECKSUM_LENGTH
    <3> HIDE DEF at
    <3>2. sum[at] \in Int /\ sum[byte] \in Int
      BY <1>0, <3>1 DEF Byte
    <3>3. addr.last \in Int
      BY <1>0, AddressFacts
    <3>4. sum[byte] + (read_xor(sum[at]) + addr.last) \in Int
      BY <3>2, <3>3 DEF read_xor
    <3> QED
      BY <3>4, ModByte
  <2>2. sum' = [sum EXCEPT ![byte] = RotateLeft(x)]
    BY <1>0, <1>5 DEF Mix
  <2> HIDE DEF x
  <2>3. sum' \in [0..7 -> Byte]
    BY <1>0, <2>1, <2>2, RotateByte
  <2>4. byte' \in 0..7 /\ k' \in Byte
    BY <1>0, <1>5 DEF Mix, AttInv, LoopBound, Accesses, Byte, CHECKSUM_LENGTH
  <2>5. UNCHANGED <<rc4, kj, nonce, ret, addr, calls, results>> /\ pc' = "next_addr"
    BY <1>5 DEF Mix
  <2> QED
    BY <2>3, <2>4, <2>5 DEF AttInv, TypeOK, LoopBound, SBoxPermutation
<1>6. ASSUME Return PROVE AttInv'
  BY <1>6 DEF Return, AttInv, TypeOK, LoopBound, SBoxPermutation
<1>7. ASSUME UNCHANGED vars PROVE AttInv'
  BY <1>7 DEF vars, AttInv, TypeOK, LoopBound, SBoxPermutation
<1> QED
  BY <1>1, <1>2, <1>3, <1>4, <1>5, <1>6, <1>7 DEF Next, Running

LEMMA AttInvariant == Spec => []AttInv
  BY InitAttInv, NextAttInv, PTL DEF Spec

\* No index of attestation(), rc4_init or next_addr leaves its array, and every
\* address drawn has 17 bits, for any nonce and number of calls.
THEOREM TypeCorrect == Spec => []TypeOK
<1>1. AttInv => TypeOK
  BY DEF AttInv
<1> QED
  BY <1>1, AttInvariant, PTL

\* For every nonce, over any number of calls, the S-box of attestation() stays a
\* permutation from the first rc4_init on.
THEOREM SBoxStaysPermutation == Spec => []SBoxPermutation
<1>1. AttInv => SBoxPermutation
  BY DEF AttInv
<1> QED
  BY <1>1, AttInvariant, PTL
=============================================================================
