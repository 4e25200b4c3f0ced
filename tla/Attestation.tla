---------------------------- MODULE Attestation -----------------------------
(***************************************************************************)
(* attestation_lib.c: the checksum of a pseudorandom walk over memory,     *)
(* driven by an RC4 generator keyed with the nonce.  rc4_s, rc4_i and      *)
(* rc4_j are globals: they outlive a call.  All sizes are the real ones.   *)
(* A step is one round of one of the loops of attestation(), or one        *)
(* (recursive) call of next_addr().                                        *)
(***************************************************************************)
EXTENDS Integers, Sequences

CONSTANTS
    Nonces,     \* nonces attestation() is called with, as their four bytes
    MaxCalls    \* bound: calls of attestation() since boot

Byte == 0..255

ASSUME NoncesAssumption == Nonces \subseteq [0..3 -> Byte] /\ MaxCalls \in Nat

CHECKSUM_LENGTH == 8
Accesses == 15          \* the loop bound in force, not MAX_MEMORY_ACCESSES
NoAddr == -1

VARIABLES
    rc4,        \* rc4_s, rc4_i, rc4_j
    pc,         \* the loop attestation() is in
    k, kj,      \* its counter; j of rc4_init
    nonce,
    ret,        \* what the outermost next_addr() will return
    addr,       \* current_addr and last_addr
    sum, byte,  \* checksum[] and the index into it
    calls,      \* calls of attestation() so far
    results     \* results[n]: the values returned so far for nonce n

vars == <<rc4, pc, k, kj, nonce, ret, addr, sum, byte, calls, results>>

-----------------------------------------------------------------------------
\* Mutant: the second store reads the cell the first one has overwritten.
rc4_swap_NoTmp(s, i, j) == [s EXCEPT ![i] = s[j]]

rc4_swap(s, i, j) == [s EXCEPT ![i] = s[j], ![j] = s[i]]

\* The generator after rc4_next(), and the byte it returns.
rc4_next(g) ==
    LET i == (g.i + 1) % 256
        j == (g.j + g.j + g.s[i]) % 256
    IN  [s |-> rc4_swap(g.s, i, j), i |-> i, j |-> j]

rc4_out(g) == g.s[(g.s[g.i] + g.s[g.j]) % 256]

\* read_byte_far always returns 3; this is 3 ^ x.
read_xor(x) == x - (x % 4) + (3 - (x % 4))

\* Mutant: the shifted byte is not cut to eight bits.
RotateLeft_Wide(x) == 2 * x + (x \div 128)

RotateLeft(x) == ((2 * x) % 256) + (x \div 128)

\* The 17-bit address made of three bytes of the generator.
Address(a, b, c) == (a * 256 + b) * 2 + (c % 2)

InMemory(a) == ~(a < 16384) /\ ~(a > 65504)

-----------------------------------------------------------------------------
Init ==
    /\ rc4 = [s |-> [b \in Byte |-> 0], i |-> 0, j |-> 0]
    /\ pc = "idle" /\ k = 0 /\ kj = 0 /\ nonce \in Nonces
    /\ ret = NoAddr /\ addr = [current |-> NoAddr, last |-> NoAddr]
    /\ sum = [b \in 0..7 |-> 0] /\ byte = 0
    /\ calls = 0 /\ results = [n \in Nonces |-> {}]

\* attestation(n) is called; rc4_init fills the S-box, and leaves rc4_i and
\* rc4_j as the last call left them.
Call(n) ==
    /\ pc = "idle" /\ calls < MaxCalls
    /\ calls' = calls + 1
    /\ nonce' = n
    /\ sum' = [b \in 0..7 |-> 0] /\ byte' = 0
    /\ addr' = [current |-> NoAddr, last |-> NoAddr] /\ ret' = NoAddr
    /\ rc4' = [rc4 EXCEPT !.s = [b \in Byte |-> b]]
    /\ k' = 0 /\ kj' = 0 /\ pc' = "rc4_init"
    /\ UNCHANGED results

\* One round of the second loop of rc4_init.
KeyRound ==
    /\ pc = "rc4_init"
    /\ LET j == (kj + kj + rc4.s[k] + nonce[k % 4]) % 256
       IN  rc4' = [rc4 EXCEPT !.s = rc4_swap(@, k, j)] /\ kj' = j
    /\ IF k < 255 THEN k' = k + 1 /\ pc' = pc
                  ELSE k' = 0 /\ pc' = "discard"
    /\ UNCHANGED <<nonce, ret, addr, sum, byte, calls, results>>

\* The first 256 values are thrown away.
Discard ==
    /\ pc = "discard"
    /\ rc4' = rc4_next(rc4)
    /\ IF k < 255 THEN k' = k + 1 /\ pc' = pc
                  ELSE k' = 0 /\ pc' = "next_addr"
    /\ UNCHANGED <<kj, nonce, ret, addr, sum, byte, calls, results>>

\* Mutant: the retry draws from the generator as it was before the call, so
\* that outside the memory next_addr() calls itself without end.
NextAddr_Stuck ==
    /\ pc = "next_addr"
    /\ LET g == rc4_next(rc4_next(rc4_next(rc4)))
           a == Address(rc4_out(rc4_next(rc4)), rc4_out(rc4_next(rc4_next(rc4))), rc4_out(g))
       IN  /\ InMemory(a)
           /\ rc4' = g
           /\ addr' = [current |-> a, last |-> a]
    /\ pc' = IF k < Accesses THEN "mix" ELSE "done"
    /\ UNCHANGED <<k, kj, nonce, ret, sum, byte, calls, results>>

\* A call of next_addr(): outside the memory it calls itself, and the address
\* that call returns is dropped.
NextAddr ==
    /\ pc = "next_addr"
    /\ LET g1 == rc4_next(rc4)
           g2 == rc4_next(g1)
           g3 == rc4_next(g2)
           a  == Address(rc4_out(g1), rc4_out(g2), rc4_out(g3))
           outermost == IF ret = NoAddr THEN a ELSE ret
       IN  /\ rc4' = g3
           /\ IF InMemory(a)
              THEN /\ addr' = [current |-> outermost,
                               last |-> IF addr.current = NoAddr THEN outermost
                                                                 ELSE addr.current]
                   /\ ret' = NoAddr
                   /\ pc' = IF k < Accesses THEN "mix" ELSE "done"
              ELSE /\ ret' = outermost
                   /\ UNCHANGED <<addr, pc>>
    /\ UNCHANGED <<k, kj, nonce, sum, byte, calls, results>>

\* One access: the byte at current_addr goes into checksum[byte].
Mix ==
    /\ pc = "mix"
    /\ LET tmp == read_xor(sum[((byte - 2) % 256) % CHECKSUM_LENGTH]) + addr.last
       IN  sum' = [sum EXCEPT ![byte] = RotateLeft((@ + tmp) % 256)]
    /\ byte' = (byte + 5) % CHECKSUM_LENGTH
    /\ k' = k + 1 /\ pc' = "next_addr"
    /\ UNCHANGED <<rc4, kj, nonce, ret, addr, calls, results>>

Return ==
    /\ pc = "done"
    /\ results' = [results EXCEPT ![nonce] = @ \cup {sum}]
    /\ pc' = "idle"
    /\ UNCHANGED <<rc4, k, kj, nonce, ret, addr, sum, byte, calls>>

Running == KeyRound \/ Discard \/ NextAddr \/ Mix \/ Return

Next == Running \/ \E n \in Nonces : Call(n)

Spec == Init /\ [][Next]_vars

\* The CPU executes attestation() once it is called.
FairSpec == Spec /\ WF_vars(Running)

-----------------------------------------------------------------------------
\* An address drawn, of 17 bits, or none.
LastAddress == 131071
Addresses == 0..LastAddress \cup {NoAddr}

\* The generator is made of bytes, addresses have 17 bits, and the loop counters
\* index what they index.
TypeOK ==
    /\ rc4 \in [s : [Byte -> Byte], i : Byte, j : Byte]
    /\ pc \in {"idle", "rc4_init", "discard", "next_addr", "mix", "done"}
    /\ k \in Byte /\ kj \in Byte
    /\ nonce \in Nonces
    /\ ret \in Addresses /\ addr \in [current : Addresses, last : Addresses]
    /\ sum \in [0..7 -> Byte] /\ byte \in 0..7
    /\ calls \in 0..MaxCalls

\* From the first rc4_init on, through every round, draw and later call, the
\* S-box is a permutation of the bytes: no swap ever loses a value.
SBoxPermutation ==
    calls > 0 => \A a, b \in Byte : rc4.s[a] = rc4.s[b] => a = b

\* attestation() returns: next_addr() does not call itself forever.
Terminates == (pc = "rc4_init") ~> (pc = "idle")
=============================================================================
