----------------------------- MODULE ReplayWindow -----------------------------
(***************************************************************************)
(* The sliding-window validator of a WireGuard session                     *)
(* (boringtun noise/session.rs, ReceivingKeyCounterValidator) together     *)
(* with the receive path that consults it: a quick check, the decryption,  *)
(* and the check-and-mark after it.  The validator sits behind a mutex and *)
(* Session::receive_packet_data takes a shared reference, so several       *)
(* packets may be between the two checks; Receivers is the set of callers  *)
(* (the binary itself has one).                                            *)
(*                                                                         *)
(* The three loops that clear the skipped part of the bitmap are taken one *)
(* iteration at a time, with the mutex held: no other step may come in     *)
(* between.  Counters are below 2^64 - N_BITS: a sender starts at 0 and    *)
(* adds one per packet.                                                    *)
(***************************************************************************)
EXTENDS Integers, FiniteSets

CONSTANTS
  WORD_SIZE,             \* bits of a bitmap word (64)
  N_WORDS,               \* words of the bitmap (16)
  Receivers,             \* callers of receive_packet_data
  Counters               \* the counters packets may carry

ASSUME SizeAssumption == /\ WORD_SIZE \in Nat \ {0}
                         /\ N_WORDS \in Nat \ {0}
ASSUME CounterAssumption == Counters \subseteq Nat /\ 0 \in Counters

N_BITS == WORD_SIZE * N_WORDS

Bits == 0 .. N_BITS - 1

VARIABLES
  next,                  \* highest accepted counter + 1
  receive_cnt,           \* number of packets accepted
  bitmap,                \* Bits -> BOOLEAN; word w is bits w*WORD_SIZE ...
  pc,                    \* "idle" or "decrypting", per receiver
  counter,               \* the counter of the packet a receiver handles
  lock,                  \* the receiver clearing the bitmap, if any
  phase, i,              \* which of its loops it is in, and the loop index
  received               \* history: the counters of the accepted packets

vars == <<next, receive_cnt, bitmap, pc, counter, lock, phase, i, received>>

Init ==
  /\ next = 0
  /\ receive_cnt = 0
  /\ bitmap = [b \in Bits |-> FALSE]
  /\ pc = [r \in Receivers |-> "idle"]
  /\ counter = [r \in Receivers |-> 0]
  /\ lock = {}
  /\ phase = "align"
  /\ i = 0
  /\ received = {}
-------------------------------------------------------------------------------
check_bit(idx) == bitmap[idx % N_BITS]

WithBit(idx) == [bitmap EXCEPT ![idx % N_BITS] = TRUE]

WithoutBit(idx) == [bitmap EXCEPT ![idx % N_BITS] = FALSE]

\* clear_word zeroes the whole word that holds bit idx % N_BITS.
WithoutWord(idx) ==
  [b \in Bits |-> IF b \div WORD_SIZE = (idx % N_BITS) \div WORD_SIZE
                  THEN FALSE ELSE bitmap[b]]

TooFarBack(c) == c + N_BITS < next

\* The verdict of will_accept.
will_accept(c) ==
  IF c >= next THEN "Ok"
  ELSE IF TooFarBack(c) THEN "InvalidCounter"
  ELSE IF check_bit(c) THEN "DuplicateCounter"
  ELSE "Ok"

\* receive_packet_data up to the decryption.
QuickCheck(r, c) ==
  /\ lock = {} /\ pc[r] = "idle"
  /\ \/ /\ will_accept(c) = "Ok"
        /\ pc' = [pc EXCEPT ![r] = "decrypting"]
        /\ counter' = [counter EXCEPT ![r] = c]
     \/ /\ will_accept(c) # "Ok"
        /\ UNCHANGED <<pc, counter>>
  /\ UNCHANGED <<next, receive_cnt, bitmap, lock, phase, i, received>>

\* The AEAD tag does not verify: the packet leaves no trace in the validator.
DecryptFails(r) ==
  /\ pc[r] = "decrypting" /\ r \notin lock
  /\ pc' = [pc EXCEPT ![r] = "idle"]
  /\ UNCHANGED <<next, receive_cnt, bitmap, counter, lock, phase, i, received>>

\* The packet is handed up: receive_cnt counts it.
Deliver(r) ==
  /\ pc' = [pc EXCEPT ![r] = "idle"]
  /\ receive_cnt' = receive_cnt + 1
  /\ received' = received \cup {counter[r]}
  /\ UNCHANGED counter

\* Seeded fault: a packet that fell out of the window during the decryption
\* is handed up.
MarkIgnoresTooFarBack(r) ==
  /\ lock = {} /\ pc[r] = "decrypting"
  /\ \/ TooFarBack(counter[r]) /\ Deliver(r)
     \/ /\ ~TooFarBack(counter[r]) /\ counter[r] < next /\ check_bit(counter[r])
        /\ pc' = [pc EXCEPT ![r] = "idle"]
        /\ UNCHANGED <<receive_cnt, counter, received>>
  /\ UNCHANGED <<next, bitmap, lock, phase, i>>

MarkRejects(r) ==
  /\ lock = {} /\ pc[r] = "decrypting"
  /\ TooFarBack(counter[r]) \/ (counter[r] < next /\ check_bit(counter[r]))
  /\ pc' = [pc EXCEPT ![r] = "idle"]
  /\ UNCHANGED <<next, receive_cnt, bitmap, counter, lock, phase, i, received>>

MarkInOrder(r) ==
  /\ lock = {} /\ pc[r] = "decrypting"
  /\ counter[r] = next
  /\ bitmap' = WithBit(counter[r])
  /\ next' = next + 1
  /\ Deliver(r)
  /\ UNCHANGED <<lock, phase, i>>

\* Seeded fault: the counter is not checked again after the decryption.
MarkTrustsQuickCheck(r) ==
  /\ lock = {} /\ pc[r] = "decrypting"
  /\ counter[r] < next /\ ~TooFarBack(counter[r])
  /\ bitmap' = WithBit(counter[r])
  /\ Deliver(r)
  /\ UNCHANGED <<next, lock, phase, i>>

MarkOutOfOrder(r) ==
  /\ lock = {} /\ pc[r] = "decrypting"
  /\ counter[r] < next /\ ~TooFarBack(counter[r])
  /\ ~check_bit(counter[r])
  /\ bitmap' = WithBit(counter[r])
  /\ Deliver(r)
  /\ UNCHANGED <<next, lock, phase, i>>

MarkFarAhead(r) ==
  /\ lock = {} /\ pc[r] = "decrypting"
  /\ counter[r] > next /\ counter[r] - next >= N_BITS
  /\ bitmap' = [[b \in Bits |-> FALSE] EXCEPT ![counter[r] % N_BITS] = TRUE]
  /\ next' = counter[r] + 1
  /\ Deliver(r)
  /\ UNCHANGED <<lock, phase, i>>

MarkStartsClearing(r) ==
  /\ lock = {} /\ pc[r] = "decrypting"
  /\ counter[r] > next /\ counter[r] - next < N_BITS
  /\ lock' = {r} /\ phase' = "align" /\ i' = next
  /\ UNCHANGED <<next, receive_cnt, bitmap, pc, counter, received>>

\* Seeded fault: whole words are cleared from an index that is not aligned.
ClearWithoutAligning(r) ==
  /\ r \in lock /\ phase = "align"
  /\ phase' = "words"
  /\ UNCHANGED <<bitmap, i, next, receive_cnt, pc, counter, lock, received>>

\* Clear until i is aligned to the word size.
ClearUntilAligned(r) ==
  /\ r \in lock /\ phase = "align"
  /\ \/ /\ i % WORD_SIZE # 0 /\ i < counter[r]
        /\ bitmap' = WithoutBit(i)
        /\ i' = i + 1
        /\ UNCHANGED phase
     \/ /\ ~(i % WORD_SIZE # 0 /\ i < counter[r])
        /\ phase' = "words"
        /\ UNCHANGED <<bitmap, i>>
  /\ UNCHANGED <<next, receive_cnt, pc, counter, lock, received>>

\* x & 0.wrapping_sub(WORD_SIZE), for a WORD_SIZE that is a power of two.
RoundDown(x) == x - (x % WORD_SIZE)

\* Clear a whole word at a time.
ClearWords(r) ==
  /\ r \in lock /\ phase = "words"
  /\ \/ /\ i + WORD_SIZE < counter[r]
        /\ bitmap' = WithoutWord(i)
        /\ i' = RoundDown(i + WORD_SIZE)
        /\ UNCHANGED phase
     \/ /\ i + WORD_SIZE >= counter[r]
        /\ phase' = "rest"
        /\ UNCHANGED <<bitmap, i>>
  /\ UNCHANGED <<next, receive_cnt, pc, counter, lock, received>>

\* Clear the remaining bits, then mark the counter and release the mutex.
ClearRest(r) ==
  /\ r \in lock /\ phase = "rest"
  /\ \/ /\ i < counter[r]
        /\ bitmap' = WithoutBit(i)
        /\ i' = i + 1
        /\ UNCHANGED <<next, receive_cnt, pc, counter, lock, phase, received>>
     \/ /\ i >= counter[r]
        /\ bitmap' = WithBit(counter[r])
        /\ next' = counter[r] + 1
        /\ Deliver(r)
        /\ lock' = {} /\ phase' = "align" /\ i' = 0
-------------------------------------------------------------------------------
Mark(r) ==
  \/ MarkRejects(r)
  \/ MarkInOrder(r)
  \/ MarkOutOfOrder(r)
  \/ MarkFarAhead(r)
  \/ MarkStartsClearing(r)
  \/ ClearUntilAligned(r)
  \/ ClearWords(r)
  \/ ClearRest(r)

Next == \E r \in Receivers :
          \/ \E c \in Counters : QuickCheck(r, c)
          \/ DecryptFails(r)
          \/ Mark(r)

Spec == Init /\ [][Next]_vars
-------------------------------------------------------------------------------
\* The variables of the validator, of its callers and of the loop in progress
\* keep the shapes their declarations in session.rs give them.
TypeOK ==
  /\ next \in Nat /\ receive_cnt \in Nat
  /\ bitmap \in [Bits -> BOOLEAN]
  /\ pc \in [Receivers -> {"idle", "decrypting"}]
  /\ counter \in [Receivers -> Counters]
  /\ lock \in SUBSET Receivers
  /\ phase \in {"align", "words", "rest"}
  /\ i \in Nat
  /\ received \in SUBSET Nat

\* No packet is accepted twice, whatever was replayed or reordered and
\* however the receivers interleave: as many packets were handed up as there
\* are distinct counters among them.
NoReplay == IsFiniteSet(received) /\ receive_cnt = Cardinality(received)

\* The quick check is exact whenever the mutex is free: it lets a counter
\* through if and only if no packet with it was accepted and it is at most
\* N_BITS behind the highest one accepted.  So the bitmap never loses a
\* packet that could still be told apart from a replay.
WillAcceptIsExact ==
  lock = {} => \A c \in Counters :
    will_accept(c) = "Ok" <=> (c \notin received /\ ~TooFarBack(c))

\* The validator behaves as the one that keeps the set of all the counters it
\* ever accepted: the N_BITS bits and the clearing loops are as good as the
\* whole history.
Abstract == INSTANCE AntiReplay WITH Window <- N_BITS
ImplementsAntiReplay == Abstract!Spec
===============================================================================
