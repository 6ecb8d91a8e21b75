-------------------------- MODULE ReplayWindowProofs --------------------------
(***************************************************************************)
(* Proofs about the sliding-window validator, for every word size, number  *)
(* of words, set of receivers and set of counters.                         *)
(*                                                                         *)
(* The bitmap is a ring: bit c % N_BITS stands for counter c.  The         *)
(* argument rests on one invariant, Window(Top): for each of the N_BITS    *)
(* counters below Top the ring says whether it was received.  Top is next  *)
(* while the mutex is free and the loop index while the gap is cleared, so *)
(* each iteration of each loop moves the same invariant forward.           *)
(***************************************************************************)
EXTENDS ReplayWindow, FiniteSetTheorems, TLAPS

Window(top, bm, rec) ==
  \A c \in Int : (top - N_BITS <= c /\ c < top) =>
                   (bm[c % N_BITS] <=> c \in rec)

Top == IF lock = {} THEN next ELSE i

\* What the receiver inside the clearing loops has established.
LockOK ==
  \A r \in lock :
    /\ lock = {r}
    /\ pc[r] = "decrypting"
    /\ next <= i /\ i <= counter[r]
    /\ next < counter[r] /\ counter[r] - next < N_BITS
    /\ phase = "words" => (i % WORD_SIZE = 0 \/ i = counter[r])

Inv ==
  /\ TypeOK
  /\ LockOK
  /\ \A c \in received : c < next
  /\ Window(Top, bitmap, received)
  /\ NoReplay
-------------------------------------------------------------------------------
(* Arithmetic of the ring.                                                 *)

\* Division with remainder, for a positive divisor.
LEMMA DivMod ==
  \A a \in Int, n \in Nat \ {0} :
    /\ a % n \in 0 .. n - 1
    /\ a \div n \in Int
    /\ a = n * (a \div n) + (a % n)
  OBVIOUS

\* A nonzero multiple of n is at least n away from 0.
LEMMA MultipleApart ==
  \A n \in Nat \ {0}, k \in Int : /\ k >= 1 => n * k >= n
                                  /\ k <= -1 => n * k <= -n
  OBVIOUS

\* What is left of a multiple of w after multiples of w * k is one of w.
LEMMA MultipleLeft ==
  ASSUME NEW w \in Int, NEW k \in Int, NEW q \in Int, NEW y \in Int,
         NEW r \in Int, w * y = (w * k) * q + r
  PROVE  y - k * q \in Int /\ r = w * (y - k * q)
  <1>1. \A a, b, c \in Int : a * (b - c) = a * b - a * c
    OBVIOUS
  <1>2. \A a, b, c \in Int : (a * b) * c = a * (b * c)
    OBVIOUS
  <1>3. k * q \in Int
    OBVIOUS
  <1>4. w * (y - k * q) = w * y - (w * k) * q
    BY <1>1, <1>2, <1>3
  <1> QED
    BY <1>3, <1>4

\* Quotient and remainder are determined by the division equation.
LEMMA DivModUnique ==
  ASSUME NEW n \in Nat \ {0}, NEW q \in Int, NEW r \in 0 .. n - 1
  PROVE  (n * q + r) % n = r /\ (n * q + r) \div n = q
  OBVIOUS

\* Two counters less than a ring apart share a bit only if they are equal.
LEMMA SameBit ==
  ASSUME NEW n \in Nat \ {0}, NEW a \in Int, NEW b \in Int,
         a % n = b % n, a - b < n, b - a < n
  PROVE  a = b
  <1> DEFINE k == (a \div n) - (b \div n)
  <1>1. k \in Int
    BY DivMod
  <1>2. a - b = n * k
    BY DivMod
  <1> HIDE DEF k
  <1>3. k = 0
    BY <1>1, <1>2, MultipleApart
  <1> QED
    BY <1>1, <1>2, <1>3

\* The ring has a positive, whole number of bits.
LEMMA RingSize == N_BITS \in Nat \ {0}
  BY SizeAssumption DEF N_BITS

\* Every counter has a bit.
LEMMA BitOf == \A c \in Int : c % N_BITS \in Bits
  BY RingSize, DivMod DEF Bits

\* SameBit for the ring of the validator.
LEMMA OneBitEach ==
  ASSUME NEW a \in Int, NEW b \in Int, a # b, a - b < N_BITS, b - a < N_BITS
  PROVE  a % N_BITS # b % N_BITS
  BY SameBit, RingSize

\* The counters of one aligned word share a word of the ring.
LEMMA SameWord ==
  ASSUME NEW x \in Int, x % WORD_SIZE = 0, NEW d \in 0 .. WORD_SIZE - 1
  PROVE  /\ (x + d) % N_BITS = (x % N_BITS) + d
         /\ ((x + d) % N_BITS) \div WORD_SIZE = (x % N_BITS) \div WORD_SIZE
         /\ x % N_BITS = WORD_SIZE * ((x % N_BITS) \div WORD_SIZE)
  <1> DEFINE W == WORD_SIZE
             K == N_WORDS
             q == x \div N_BITS
             r == x % N_BITS
             m == (x \div W) - K * q
  <1>1. W \in Nat \ {0} /\ K \in Nat \ {0} /\ N_BITS = W * K
    BY SizeAssumption DEF N_BITS
  <1>2. q \in Int /\ r \in 0 .. N_BITS - 1 /\ x = N_BITS * q + r
    BY DivMod, RingSize
  <1>3. x \div W \in Int /\ x = W * (x \div W)
    BY <1>1, DivMod
  <1>4. m \in Int /\ r = W * m
    <2> HIDE DEF W, K, q, r
    <2>1. W * (x \div W) = (W * K) * q + r
      BY <1>1, <1>2, <1>3
    <2> QED
      BY <1>1, <1>2, <1>3, <2>1, MultipleLeft
  <1> HIDE DEF W, K, q, r, m
  <1>5. m < K
    <2> SUFFICES ASSUME m >= K PROVE FALSE
      BY <1>1, <1>4
    <2>1. W * m >= W * K
      BY <1>1, <1>4
    <2> QED
      BY <1>1, <1>2, <1>4, <2>1
  <1>6. r + W <= N_BITS
    <2>1. W * (m + 1) <= W * K
      BY <1>1, <1>4, <1>5
    <2>2. W * (m + 1) = W * m + W
      BY <1>1, <1>4
    <2> QED
      BY <1>1, <1>2, <1>4, <2>1, <2>2
  <1>7. d \in 0 .. W - 1
    BY DEF W
  <1>8. r + d \in 0 .. N_BITS - 1 /\ x + d = N_BITS * q + (r + d)
    BY <1>1, <1>2, <1>6, <1>7, RingSize
  <1>9. (x + d) % N_BITS = r + d
    <2>1. (N_BITS * q + (r + d)) % N_BITS = r + d
      BY <1>2, <1>8, DivModUnique, RingSize
    <2> QED
      BY <1>8, <2>1
  <1>10. (W * m + d) \div W = m /\ (W * m + 0) \div W = m
    BY <1>1, <1>4, <1>7, DivModUnique
  <1>11. (r + d) \div W = m /\ r \div W = m
    BY <1>1, <1>2, <1>4, <1>7, <1>10
  <1> QED
    BY <1>4, <1>9, <1>11 DEF r, W

\* A counter of the N_BITS below x + WORD_SIZE that is outside the word of
\* an aligned x has its bit outside that word of the ring.
LEMMA OtherWord ==
  ASSUME NEW x \in Int, x % WORD_SIZE = 0, NEW y \in Int,
         x + WORD_SIZE - N_BITS <= y, y < x
  PROVE  (y % N_BITS) \div WORD_SIZE # (x % N_BITS) \div WORD_SIZE
  <1> SUFFICES ASSUME (y % N_BITS) \div WORD_SIZE = (x % N_BITS) \div WORD_SIZE
               PROVE  FALSE
    OBVIOUS
  <1> DEFINE m == (x % N_BITS) \div WORD_SIZE
             d == (y % N_BITS) % WORD_SIZE
  <1>1. WORD_SIZE \in Nat \ {0} /\ N_BITS \in Nat \ {0}
    BY SizeAssumption, RingSize
  <1>2. x % N_BITS \in 0 .. N_BITS - 1 /\ y % N_BITS \in 0 .. N_BITS - 1
    BY <1>1, DivMod
  <1>3. d \in 0 .. WORD_SIZE - 1 /\ y % N_BITS = WORD_SIZE * m + d
    <2> DEFINE s == y % N_BITS
    <2>1. s \in Int
      BY <1>1, <1>2
    <2> HIDE DEF s
    <2>2. s % WORD_SIZE \in 0 .. WORD_SIZE - 1 /\ s = WORD_SIZE * (s \div WORD_SIZE) + (s % WORD_SIZE)
      BY <1>1, <2>1, DivMod
    <2> QED
      BY <2>2 DEF s
  <1>4. x % N_BITS = WORD_SIZE * m /\ (x + d) % N_BITS = (x % N_BITS) + d
    BY <1>3, SameWord
  <1>5. (x + d) % N_BITS = y % N_BITS
    BY <1>3, <1>4
  <1>6. x + d \in Int /\ (x + d) - y < N_BITS /\ y - (x + d) < N_BITS /\ x + d # y
    BY <1>1, <1>3
  <1> QED
    BY <1>5, <1>6, OneBitEach
-------------------------------------------------------------------------------
(* How each write to the ring moves the window.                            *)

\* Writing the bit of the counter at the top extends the window by it.
LEMMA WindowExtends ==
  ASSUME NEW top \in Int, NEW bm \in [Bits -> BOOLEAN], NEW rec, NEW rec2,
         NEW v \in BOOLEAN, NEW bm2, bm2 = [bm EXCEPT ![top % N_BITS] = v],
         Window(top, bm, rec),
         \A c \in Int : c < top => (c \in rec2 <=> c \in rec),
         v <=> top \in rec2
  PROVE  Window(top + 1, bm2, rec2)
  <1> SUFFICES ASSUME NEW c \in Int, top + 1 - N_BITS <= c, c < top + 1
               PROVE  bm2[c % N_BITS] <=> c \in rec2
    BY RingSize DEF Window
  <1>1. c % N_BITS \in Bits /\ top % N_BITS \in Bits
    BY BitOf
  <1>2. CASE c = top
    BY <1>1, <1>2
  <1>3. CASE c # top
    <2>1. c < top /\ top - N_BITS <= c /\ c - top < N_BITS /\ top - c < N_BITS
      BY <1>3, RingSize
    <2>2. c % N_BITS # top % N_BITS
      BY <1>3, <2>1, OneBitEach
    <2>3. bm[c % N_BITS] <=> c \in rec2
      BY <2>1 DEF Window
    <2>4. bm2[c % N_BITS] = bm[c % N_BITS]
      BY <1>1, <2>2
    <2> QED
      BY <2>3, <2>4
  <1> QED
    BY <1>2, <1>3

\* Setting the bit of a counter inside the window records it there.
LEMMA WindowRecords ==
  ASSUME NEW top \in Int, NEW bm \in [Bits -> BOOLEAN], NEW rec,
         NEW x \in Int, top - N_BITS <= x, x < top,
         NEW bm2, bm2 = [bm EXCEPT ![x % N_BITS] = TRUE],
         Window(top, bm, rec)
  PROVE  Window(top, bm2, rec \cup {x})
  <1> SUFFICES ASSUME NEW c \in Int, top - N_BITS <= c, c < top
               PROVE  bm2[c % N_BITS] <=> c \in rec \cup {x}
    BY DEF Window
  <1>1. c % N_BITS \in Bits /\ x % N_BITS \in Bits
    BY BitOf
  <1>2. CASE c = x
    BY <1>1, <1>2
  <1>3. CASE c # x
    <2>1. c - x < N_BITS /\ x - c < N_BITS
      BY RingSize
    <2>2. c % N_BITS # x % N_BITS
      BY <1>3, <2>1, OneBitEach
    <2>3. bm[c % N_BITS] <=> c \in rec
      BY DEF Window
    <2>4. bm2[c % N_BITS] = bm[c % N_BITS]
      BY <1>1, <2>2
    <2> QED
      BY <1>3, <2>3, <2>4
  <1> QED
    BY <1>2, <1>3

\* Clearing the word of an aligned top extends the window by that word,
\* when none of its counters was received.
LEMMA WindowSkipsWord ==
  ASSUME NEW top \in Int, top % WORD_SIZE = 0,
         NEW bm \in [Bits -> BOOLEAN], NEW rec, NEW bm2,
         bm2 = [b \in Bits |-> IF b \div WORD_SIZE = (top % N_BITS) \div WORD_SIZE
                               THEN FALSE ELSE bm[b]],
         Window(top, bm, rec),
         \A c \in Int : c >= top => c \notin rec
  PROVE  Window(top + WORD_SIZE, bm2, rec)
  <1> DEFINE top2 == top + WORD_SIZE
  <1>0. top2 \in Int /\ top2 = top + WORD_SIZE
    BY SizeAssumption
  <1> HIDE DEF top2
  <1> SUFFICES ASSUME NEW c \in Int, top2 - N_BITS <= c, c < top2
               PROVE  bm2[c % N_BITS] <=> c \in rec
    BY DEF Window, top2
  <1>1. bm2[c % N_BITS] = IF (c % N_BITS) \div WORD_SIZE = (top % N_BITS) \div WORD_SIZE
                          THEN FALSE ELSE bm[c % N_BITS]
    BY BitOf
  <1>2. CASE c >= top
    <2>1. c - top \in 0 .. WORD_SIZE - 1 /\ top + (c - top) = c
      BY <1>0, <1>2, SizeAssumption
    <2>2. (c % N_BITS) \div WORD_SIZE = (top % N_BITS) \div WORD_SIZE
      BY <2>1, SameWord
    <2> QED
      BY <1>1, <1>2, <2>2
  <1>3. CASE c < top
    <2>1. (c % N_BITS) \div WORD_SIZE # (top % N_BITS) \div WORD_SIZE
      <3>1. top + WORD_SIZE - N_BITS <= c
        BY <1>0, RingSize, SizeAssumption
      <3> QED
        BY <1>3, <3>1, OtherWord
    <2>2. bm[c % N_BITS] <=> c \in rec
      BY <1>0, <1>3, SizeAssumption, RingSize DEF Window
    <2> QED
      BY <1>1, <2>1, <2>2
  <1> QED
    BY <1>2, <1>3

\* A bitmap holding one counter is right when all others are a ring behind.
LEMMA WindowRestarts ==
  ASSUME NEW x \in Int, NEW rec \in SUBSET Int, NEW bm2,
         \A b \in Bits : bm2[b] <=> b = x % N_BITS,
         \A c \in rec : c + N_BITS < x + 1
  PROVE  Window(x + 1, bm2, rec \cup {x})
  <1> SUFFICES ASSUME NEW c \in Int, x + 1 - N_BITS <= c, c < x + 1
               PROVE  bm2[c % N_BITS] <=> c \in rec \cup {x}
    BY RingSize DEF Window
  <1>1. bm2[c % N_BITS] <=> c % N_BITS = x % N_BITS
    BY BitOf
  <1>2. c - x < N_BITS /\ x - c < N_BITS
    BY RingSize
  <1>3. c % N_BITS = x % N_BITS => c = x
    BY <1>2, OneBitEach
  <1>4. c \notin rec
    BY RingSize
  <1> QED
    BY <1>1, <1>3, <1>4
-------------------------------------------------------------------------------
(* The invariant.                                                          *)

LEMMA InitInv == Init => Inv
  <1> SUFFICES ASSUME Init PROVE Inv
    OBVIOUS
  <1>1. TypeOK
    BY CounterAssumption DEF Init, TypeOK
  <1>2. LockOK /\ \A c \in received : c < next
    BY DEF Init, LockOK
  <1>3. Window(Top, bitmap, received)
    BY BitOf DEF Init, Window, Top
  <1>4. NoReplay
    BY FS_EmptySet DEF Init, NoReplay
  <1> QED
    BY <1>1, <1>2, <1>3, <1>4 DEF Inv

\* The counter of a packet is a number.
LEMMA CounterIsNat ==
  ASSUME TypeOK, NEW r \in Receivers
  PROVE  counter[r] \in Nat /\ next \in Nat
  <1>1. counter[r] \in Counters /\ next \in Nat
    BY DEF TypeOK
  <1>2. \A x : x \in Counters => x \in Nat
    BY Zenon, CounterAssumption
  <1> QED
    BY <1>1, <1>2

\* Handing up a packet whose counter is new keeps receive_cnt the size of
\* the set of counters.
LEMMA DeliverCounts ==
  ASSUME NEW r \in Receivers, TypeOK, NoReplay, Deliver(r), counter[r] \notin received
  PROVE  NoReplay'
  BY FS_AddElement DEF TypeOK, NoReplay, Deliver

LEMMA DeliverTypes ==
  ASSUME NEW r \in Receivers, TypeOK, Deliver(r),
         next' \in Nat, bitmap' \in [Bits -> BOOLEAN], lock' \in SUBSET Receivers,
         phase' \in {"align", "words", "rest"}, i' \in Nat
  PROVE  TypeOK'
  <1>1. counter[r] \in Nat
    BY CounterIsNat
  <1>2. receive_cnt' \in Nat
    BY DEF TypeOK, Deliver
  <1>4. received' \in SUBSET Nat
    BY <1>1, Zenon DEF TypeOK, Deliver
  <1>3. pc' \in [Receivers -> {"idle", "decrypting"}]
    BY DEF TypeOK, Deliver
  <1> QED
    BY <1>2, <1>3, <1>4 DEF TypeOK, Deliver

\* Nothing a receiver does outside the validator touches the invariant.
LEMMA QuickCheckInv ==
  ASSUME NEW r \in Receivers, NEW c \in Counters, Inv, QuickCheck(r, c)
  PROVE  Inv'
  <1>1. TypeOK'
    BY DEF Inv, TypeOK, QuickCheck
  <1>2. LockOK'
    BY DEF Inv, LockOK, QuickCheck
  <1> QED
    BY <1>1, <1>2 DEF Inv, QuickCheck, NoReplay, Top, Window

LEMMA DecryptFailsInv ==
  ASSUME NEW r \in Receivers, Inv, DecryptFails(r)
  PROVE  Inv'
  <1>1. TypeOK'
    BY DEF Inv, TypeOK, DecryptFails
  <1>2. LockOK'
    BY DEF Inv, TypeOK, LockOK, DecryptFails
  <1> QED
    BY <1>1, <1>2 DEF Inv, DecryptFails, NoReplay, Top, Window

LEMMA MarkRejectsInv ==
  ASSUME NEW r \in Receivers, Inv, MarkRejects(r)
  PROVE  Inv'
  <1>1. TypeOK'
    BY DEF Inv, TypeOK, MarkRejects
  <1>2. LockOK'
    BY DEF Inv, LockOK, MarkRejects
  <1> QED
    BY <1>1, <1>2 DEF Inv, MarkRejects, NoReplay, Top, Window

LEMMA MarkInOrderInv ==
  ASSUME NEW r \in Receivers, Inv, MarkInOrder(r)
  PROVE  Inv'
  <1>1. counter[r] = next /\ next \in Nat /\ next \notin received
    BY DEF Inv, TypeOK, MarkInOrder
  <1>2. TypeOK'
    <2>1. next' \in Nat
      BY <1>1 DEF MarkInOrder
    <2>2. bitmap' \in [Bits -> BOOLEAN]
      BY DEF Inv, TypeOK, MarkInOrder, WithBit
    <2> QED
      BY <2>1, <2>2, DeliverTypes DEF Inv, TypeOK, MarkInOrder
  <1>3. LockOK' /\ \A c \in received' : c < next'
    BY <1>1 DEF Inv, TypeOK, LockOK, MarkInOrder, Deliver
  <1>4. Window(Top, bitmap, received)'
    <2>1. Window(next, bitmap, received)
      BY DEF Inv, Top, MarkInOrder
    <2>2. bitmap' = [bitmap EXCEPT ![next % N_BITS] = TRUE] /\ bitmap \in [Bits -> BOOLEAN]
      BY <1>1 DEF Inv, TypeOK, MarkInOrder, WithBit
    <2>3. received' = received \cup {next}
      BY <1>1 DEF MarkInOrder, Deliver
    <2>4. \A c \in Int : c < next => (c \in received' <=> c \in received)
      BY <1>1, <2>3
    <2>5. next \in received' /\ next \in Int
      BY <1>1, <2>3
    <2>6. Window(next + 1, bitmap', received')
      BY <2>1, <2>2, <2>4, <2>5, WindowExtends
    <2> QED
      BY <2>6 DEF MarkInOrder, Top, Window
  <1>5. NoReplay'
    BY <1>1, DeliverCounts DEF Inv, MarkInOrder
  <1> QED
    BY <1>2, <1>3, <1>4, <1>5 DEF Inv

LEMMA MarkOutOfOrderInv ==
  ASSUME NEW r \in Receivers, Inv, MarkOutOfOrder(r)
  PROVE  Inv'
  <1> DEFINE x == counter[r]
  <1>1. x \in Nat /\ next \in Nat /\ x < next /\ next - N_BITS <= x
    BY CounterIsNat, RingSize DEF Inv, MarkOutOfOrder, TooFarBack
  <1>2. Window(next, bitmap, received)
    BY DEF Inv, Top, MarkOutOfOrder
  <1>3. x \notin received
    BY <1>1, <1>2 DEF Window, MarkOutOfOrder, check_bit
  <1>4. bitmap' = [bitmap EXCEPT ![x % N_BITS] = TRUE] /\ bitmap \in [Bits -> BOOLEAN]
    BY DEF Inv, TypeOK, MarkOutOfOrder, WithBit
  <1>5. received' = received \cup {x} /\ next' = next /\ lock = {} /\ lock' = {}
    BY DEF MarkOutOfOrder, Deliver
  <1>6. TypeOK'
    BY <1>1, <1>4, DeliverTypes DEF Inv, TypeOK, MarkOutOfOrder
  <1> HIDE DEF x
  <1>7. LockOK' /\ \A c \in received' : c < next'
    BY <1>1, <1>5 DEF Inv, LockOK
  <1>8. Window(Top, bitmap, received)'
    <2>1. x \in Int /\ next \in Int /\ next - N_BITS <= x /\ x < next
      BY <1>1
    <2>2. Window(next, bitmap', received \cup {x})
      BY <1>2, <1>4, <2>1, WindowRecords
    <2> QED
      BY <1>5, <2>2 DEF Top, Window
  <1>9. NoReplay'
    BY <1>3, DeliverCounts DEF Inv, MarkOutOfOrder, x
  <1> QED
    BY <1>6, <1>7, <1>8, <1>9 DEF Inv

LEMMA MarkFarAheadInv ==
  ASSUME NEW r \in Receivers, Inv, MarkFarAhead(r)
  PROVE  Inv'
  <1> DEFINE x == counter[r]
  <1>1. x \in Nat /\ next \in Nat /\ x > next /\ x - next >= N_BITS
    BY CounterIsNat, RingSize DEF Inv, MarkFarAhead
  <1>2. /\ bitmap' = [[b \in Bits |-> FALSE] EXCEPT ![x % N_BITS] = TRUE]
        /\ next' = x + 1 /\ next' \in Nat
    BY <1>1 DEF MarkFarAhead
  <1>3. received' = received \cup {x} /\ lock = {} /\ lock' = {}
    BY DEF MarkFarAhead, Deliver
  <1>4. TypeOK'
    <2>1. bitmap' \in [Bits -> BOOLEAN]
      BY <1>2
    <2>2. next' \in Nat
      BY <1>2
    <2>3. Deliver(r) /\ UNCHANGED <<lock, phase, i>>
      BY DEF MarkFarAhead
    <2> QED
      BY <2>1, <2>2, <2>3, DeliverTypes DEF Inv, TypeOK
  <1>5. received \in SUBSET Int /\ \A c \in received : c + N_BITS < x + 1
    BY <1>1, RingSize DEF Inv, TypeOK
  <1>6. x \notin received
    BY <1>1 DEF Inv
  <1> HIDE DEF x
  <1>7. LockOK' /\ \A c \in received' : c < next'
    BY <1>1, <1>2, <1>3 DEF Inv, TypeOK, LockOK
  <1>8. Window(Top, bitmap, received)'
    <2>0. \A b \in Bits : bitmap'[b] <=> b = x % N_BITS
      BY <1>1, <1>2, BitOf
    <2>1. x \in Int
      BY <1>1
    <2>2. Window(x + 1, bitmap', received \cup {x})
      BY <1>5, <2>0, <2>1, WindowRestarts
    <2> QED
      BY <1>2, <1>3, <2>2 DEF Top, Window
  <1>9. NoReplay'
    BY <1>6, DeliverCounts DEF Inv, MarkFarAhead, x
  <1> QED
    BY <1>4, <1>7, <1>8, <1>9 DEF Inv

LEMMA MarkStartsClearingInv ==
  ASSUME NEW r \in Receivers, Inv, MarkStartsClearing(r)
  PROVE  Inv'
  <1>1. TypeOK'
    BY DEF Inv, TypeOK, MarkStartsClearing
  <1>2. LockOK'
    <2>1. lock' = {r} /\ pc' = pc /\ pc[r] = "decrypting" /\ phase' = "align"
      BY DEF MarkStartsClearing
    <2>2. /\ next' = next /\ i' = next /\ counter' = counter
          /\ next < counter[r] /\ counter[r] - next < N_BITS
          /\ next \in Nat /\ counter[r] \in Nat
      BY CounterIsNat, RingSize DEF Inv, MarkStartsClearing
    <2> QED
      BY <2>1, <2>2 DEF LockOK
  <1>3. Window(Top, bitmap, received)'
    BY DEF Inv, Top, Window, MarkStartsClearing
  <1> QED
    BY <1>1, <1>2, <1>3 DEF Inv, MarkStartsClearing, NoReplay

\* Clearing the bit at the loop index extends the window by a counter that
\* was not received.
LEMMA ClearBitInv ==
  ASSUME NEW r \in Receivers, Inv, r \in lock, i < counter[r],
         bitmap' = WithoutBit(i), i' = i + 1, phase' = phase, phase # "words",
         UNCHANGED <<next, receive_cnt, pc, counter, lock, received>>
  PROVE  Inv'
  <1>1. /\ i \in Nat /\ next \in Nat /\ counter[r] \in Nat /\ lock = {r}
        /\ next <= i /\ bitmap \in [Bits -> BOOLEAN]
    BY CounterIsNat DEF Inv, TypeOK, LockOK
  <1>2. i' \in Nat /\ i' <= counter[r] /\ next <= i'
    BY <1>1
  <1>3. bitmap' = [bitmap EXCEPT ![i % N_BITS] = FALSE]
    BY DEF WithoutBit
  <1>4. TypeOK'
    <2>1. bitmap' \in [Bits -> BOOLEAN]
      BY <1>1, <1>3
    <2> QED
      BY <1>2, <2>1 DEF Inv, TypeOK
  <1>5. LockOK'
    BY <1>1, <1>2 DEF Inv, LockOK
  <1>6. Window(Top, bitmap, received)'
    <2>1. Window(i, bitmap, received) /\ i \notin received
      BY <1>1 DEF Inv, Top
    <2>2. i \in Int /\ \A c \in Int : c < i => (c \in received <=> c \in received)
      BY <1>1
    <2>3. FALSE <=> i \in received
      BY <2>1
    <2>4. Window(i + 1, bitmap', received)
      BY <1>1, <1>3, <2>1, <2>2, <2>3, WindowExtends
    <2> QED
      BY <1>1, <2>4 DEF Top, Window
  <1> QED
    BY <1>4, <1>5, <1>6 DEF Inv, NoReplay

\* Moving on to the next loop.
LEMMA NextPhaseInv ==
  ASSUME NEW r \in Receivers, Inv, r \in lock, phase' \in {"words", "rest"},
         phase' = "words" => (i % WORD_SIZE = 0 \/ i = counter[r]),
         UNCHANGED <<bitmap, i, next, receive_cnt, pc, counter, lock, received>>
  PROVE  Inv'
  <1>1. TypeOK'
    BY DEF Inv, TypeOK
  <1>2. LockOK'
    BY DEF Inv, LockOK
  <1> QED
    BY <1>1, <1>2 DEF Inv, NoReplay, Top, Window

LEMMA ClearUntilAlignedInv ==
  ASSUME NEW r \in Receivers, Inv, ClearUntilAligned(r)
  PROVE  Inv'
  <1>1. CASE i % WORD_SIZE # 0 /\ i < counter[r]
    BY <1>1, ClearBitInv DEF ClearUntilAligned
  <1>2. CASE ~(i % WORD_SIZE # 0 /\ i < counter[r])
    <2>1. i \in Nat /\ counter[r] \in Nat /\ i <= counter[r]
      BY CounterIsNat DEF Inv, TypeOK, LockOK, ClearUntilAligned
    <2>2. i % WORD_SIZE = 0 \/ i = counter[r]
      BY <1>2, <2>1
    <2> QED
      BY <1>2, <2>2, NextPhaseInv DEF ClearUntilAligned
  <1> QED
    BY <1>1, <1>2

LEMMA ClearWordsInv ==
  ASSUME NEW r \in Receivers, Inv, ClearWords(r)
  PROVE  Inv'
  <1>0. r \in lock /\ phase = "words"
    BY DEF ClearWords
  <1>1. CASE i + WORD_SIZE >= counter[r]
    <2>1. i \in Nat /\ counter[r] \in Nat /\ WORD_SIZE \in Nat
      BY CounterIsNat, SizeAssumption DEF Inv, TypeOK
    <2> QED
      BY <1>0, <1>1, <2>1, NextPhaseInv DEF ClearWords
  <1>2. CASE i + WORD_SIZE < counter[r]
    <2>1. /\ i \in Nat /\ next \in Nat /\ counter[r] \in Nat /\ lock = {r}
          /\ next <= i /\ bitmap \in [Bits -> BOOLEAN] /\ WORD_SIZE \in Nat \ {0}
      BY <1>0, CounterIsNat, SizeAssumption DEF Inv, TypeOK, LockOK
    <2>2. i % WORD_SIZE = 0 \/ i = counter[r]
      BY <1>0 DEF Inv, LockOK
    <2>3. i % WORD_SIZE = 0
      BY <1>2, <2>1, <2>2
    <2>4. (i + WORD_SIZE) % WORD_SIZE = 0
      <3>1. i \div WORD_SIZE \in Int /\ i = WORD_SIZE * (i \div WORD_SIZE)
        BY <2>1, <2>3, DivMod
      <3>2. (WORD_SIZE * ((i \div WORD_SIZE) + 1) + 0) % WORD_SIZE = 0
        BY <2>1, <3>1, DivModUnique
      <3>3. i + WORD_SIZE = WORD_SIZE * ((i \div WORD_SIZE) + 1) + 0
        BY <2>1, <3>1
      <3> QED
        BY <3>2, <3>3
    <2>5. i' = i + WORD_SIZE /\ bitmap' = WithoutWord(i) /\ phase' = phase
      BY <1>2, <2>1, <2>4 DEF ClearWords, RoundDown
    <2>6. UNCHANGED <<next, receive_cnt, pc, counter, lock, received>>
      BY DEF ClearWords
    <2>7. TypeOK'
      <3>1. bitmap' \in [Bits -> BOOLEAN]
        BY <2>1, <2>5 DEF WithoutWord
      <3> QED
        BY <2>1, <2>5, <2>6, <3>1 DEF Inv, TypeOK
    <2>8. LockOK'
      BY <1>2, <2>1, <2>4, <2>5, <2>6 DEF Inv, LockOK
    <2>9. Window(Top, bitmap, received)'
      <3>1. Window(i, bitmap, received) /\ \A c \in Int : c >= i => c \notin received
        BY <2>1 DEF Inv, Top
      <3>2. i \in Int /\ bitmap \in [Bits -> BOOLEAN]
        BY <2>1
      <3>3. bitmap' = [b \in Bits |-> IF b \div WORD_SIZE = (i % N_BITS) \div WORD_SIZE
                                      THEN FALSE ELSE bitmap[b]]
        BY <2>5 DEF WithoutWord
      <3>4. Window(i + WORD_SIZE, bitmap', received)
        BY <2>3, <3>1, <3>2, <3>3, WindowSkipsWord
      <3> QED
        BY <2>1, <2>5, <2>6, <3>4 DEF Top, Window
    <2> QED
      BY <2>6, <2>7, <2>8, <2>9 DEF Inv, NoReplay
  <1>3. (i + WORD_SIZE >= counter[r]) \/ (i + WORD_SIZE < counter[r])
    BY DEF ClearWords
  <1> QED
    BY <1>1, <1>2, <1>3

LEMMA ClearRestInv ==
  ASSUME NEW r \in Receivers, Inv, ClearRest(r)
  PROVE  Inv'
  <1> DEFINE x == counter[r]
  <1>0. r \in lock /\ phase = "rest"
    BY DEF ClearRest
  <1>1. /\ i \in Nat /\ next \in Nat /\ x \in Nat /\ lock = {r}
        /\ next <= i /\ i <= x /\ bitmap \in [Bits -> BOOLEAN]
    BY <1>0, CounterIsNat DEF Inv, TypeOK, LockOK
  <1>2. CASE i < x
    BY <1>0, <1>1, <1>2, ClearBitInv DEF ClearRest
  <1>3. CASE i >= x
    <2>1. i = x /\ x \notin received
      BY <1>1, <1>3 DEF Inv
    <2>2. /\ bitmap' = [bitmap EXCEPT ![x % N_BITS] = TRUE]
          /\ next' = x + 1 /\ received' = received \cup {x} /\ lock' = {}
          /\ phase' = "align" /\ i' = 0 /\ Deliver(r)
      BY <1>1, <1>3 DEF ClearRest, WithBit, Deliver
    <2>3. TypeOK'
      <3>1. bitmap' \in [Bits -> BOOLEAN]
        BY <1>1, <2>2
      <3>2. next' \in Nat
        BY <1>1, <2>2
      <3> QED
        BY <2>2, <3>1, <3>2, DeliverTypes DEF Inv
    <2>4. LockOK' /\ \A c \in received' : c < next'
      BY <1>1, <2>2 DEF Inv, TypeOK, LockOK
    <2>5. Window(Top, bitmap, received)'
      <3>1. Window(x, bitmap, received)
        BY <1>1, <2>1 DEF Inv, Top
      <3>2. \A c \in Int : c < x => (c \in received' <=> c \in received)
        BY <1>1, <2>2
      <3>3. x \in Int /\ x \in received'
        BY <1>1, <2>2
      <3> HIDE DEF x
      <3>4. Window(x + 1, bitmap', received')
        BY <1>1, <2>2, <3>1, <3>2, <3>3, WindowExtends
      <3> QED
        BY <2>2, <3>4 DEF Top, Window
    <2>6. NoReplay'
      BY <2>1, <2>2, DeliverCounts DEF Inv
    <2> QED
      BY <2>3, <2>4, <2>5, <2>6 DEF Inv
  <1> QED
    BY <1>1, <1>2, <1>3

LEMMA NextInv == Inv /\ [Next]_vars => Inv'
  <1> SUFFICES ASSUME Inv, [Next]_vars PROVE Inv'
    OBVIOUS
  <1>1. CASE UNCHANGED vars
    BY <1>1 DEF vars, Inv, TypeOK, LockOK, NoReplay, Top, Window
  <1>2. CASE Next
    <2> PICK r \in Receivers : \/ \E c \in Counters : QuickCheck(r, c)
                               \/ DecryptFails(r)
                               \/ Mark(r)
      BY <1>2 DEF Next
    <2> QED
      BY QuickCheckInv, DecryptFailsInv, MarkRejectsInv, MarkInOrderInv,
         MarkOutOfOrderInv, MarkFarAheadInv, MarkStartsClearingInv,
         ClearUntilAlignedInv, ClearWordsInv, ClearRestInv DEF Mark
  <1> QED
    BY <1>1, <1>2

\* The strengthened invariant holds throughout.
THEOREM Invariance == Spec => []Inv
  BY InitInv, NextInv, PTL DEF Spec

\* Every index the validator computes stays inside its bitmap and every
\* variable keeps its type.
THEOREM TypeCorrect == Spec => []TypeOK
  <1>1. Inv => TypeOK
    BY DEF Inv
  <1> QED
    BY <1>1, Invariance, PTL

\* No packet is handed up twice, for every size of the window, every number
\* of concurrent receivers and every set of counters.
THEOREM NeverReplayed == Spec => []NoReplay
  <1>1. Inv => NoReplay
    BY DEF Inv
  <1> QED
    BY <1>1, Invariance, PTL

\* The quick check refuses exactly the replayed counters and those that fell
\* out of the window.
THEOREM QuickCheckExact == Spec => []WillAcceptIsExact
  <1>1. Inv => WillAcceptIsExact
    <2> SUFFICES ASSUME Inv, lock = {}, NEW c \in Counters
                 PROVE  will_accept(c) = "Ok" <=> (c \notin received /\ ~TooFarBack(c))
      BY DEF WillAcceptIsExact
    <2>1. c \in Nat /\ next \in Nat /\ N_BITS \in Nat \ {0}
      BY CounterAssumption, RingSize DEF Inv, TypeOK
    <2>2. CASE c >= next
      BY <2>1, <2>2 DEF Inv, will_accept, TooFarBack
    <2>3. CASE c < next /\ TooFarBack(c)
      BY <2>1, <2>3 DEF will_accept
    <2>4. CASE c < next /\ ~TooFarBack(c)
      <3>1. next - N_BITS <= c /\ c < next /\ c \in Int
        BY <2>1, <2>4 DEF TooFarBack
      <3>2. Window(next, bitmap, received)
        BY DEF Inv, Top
      <3>3. check_bit(c) <=> c \in received
        BY <3>1, <3>2 DEF Window, check_bit
      <3> QED
        BY <2>1, <2>4, <3>3 DEF will_accept
    <2> QED
      BY <2>1, <2>2, <2>3, <2>4
  <1> QED
    BY <1>1, Invariance, PTL

\* A delivery is an acceptance of the abstract validator.
LEMMA DeliverRefines ==
  ASSUME NEW r \in Receivers, Inv, Deliver(r),
         counter[r] \notin received, ~TooFarBack(counter[r]),
         next' = IF counter[r] < next THEN next ELSE counter[r] + 1
  PROVE  Abstract!Next
  <1>1. received' = received \cup {counter[r]} /\ counter[r] \in Counters
    BY DEF Deliver, Inv, TypeOK
  <1>2. Abstract!Accept(counter[r])
    BY <1>1 DEF Abstract!Accept, Abstract!Acceptable, Abstract!TooFarBack, TooFarBack
  <1> QED
    BY <1>1, <1>2 DEF Abstract!Next

\* Every step of the validator is an acceptance or leaves the abstract
\* validator alone.
LEMMA StepRefines ==
  ASSUME Inv, [Next]_vars
  PROVE  [Abstract!Next]_(Abstract!vars)
  <1> SUFFICES ASSUME ~ UNCHANGED Abstract!vars PROVE Abstract!Next
    OBVIOUS
  <1>1. Next /\ ~ UNCHANGED <<received, next>>
    BY DEF vars, Abstract!vars
  <1>2. PICK r \in Receivers : \/ \E c \in Counters : QuickCheck(r, c)
                               \/ DecryptFails(r)
                               \/ Mark(r)
    BY <1>1 DEF Next
  <1>3. MarkInOrder(r) \/ MarkOutOfOrder(r) \/ MarkFarAhead(r) \/ ClearRest(r)
    BY <1>1, <1>2 DEF QuickCheck, DecryptFails, Mark, MarkRejects,
       MarkStartsClearing, ClearUntilAligned, ClearWords
  <1>4. /\ counter[r] \in Nat /\ next \in Nat /\ N_BITS \in Nat \ {0}
        /\ \A c \in received : c < next
    BY CounterIsNat, RingSize DEF Inv
  <1>5. counter[r] >= next => /\ counter[r] \notin received
                              /\ ~TooFarBack(counter[r])
                              /\ ~(counter[r] < next)
    BY <1>4 DEF TooFarBack
  <1>6. CASE MarkInOrder(r)
    <2>1. counter[r] >= next /\ Deliver(r) /\ next' = counter[r] + 1
      BY <1>4, <1>6 DEF MarkInOrder
    <2> QED
      BY <1>5, <2>1, DeliverRefines
  <1>7. CASE MarkFarAhead(r)
    <2>1. counter[r] > next /\ Deliver(r) /\ next' = counter[r] + 1
      BY <1>7, Zenon DEF MarkFarAhead
    <2>2. counter[r] >= next
      BY <1>4, <2>1
    <2> QED
      BY <1>5, <2>1, <2>2, DeliverRefines
  <1>8. CASE MarkOutOfOrder(r)
    <2>1. Window(next, bitmap, received)
      BY <1>8 DEF Inv, Top, MarkOutOfOrder
    <2>2. counter[r] \in Int /\ next - N_BITS <= counter[r] /\ counter[r] < next
      BY <1>4, <1>8 DEF MarkOutOfOrder, TooFarBack
    <2>3. counter[r] \notin received
      BY <1>8, <2>1, <2>2 DEF MarkOutOfOrder, Window, check_bit
    <2> QED
      BY <1>8, <2>2, <2>3, DeliverRefines DEF MarkOutOfOrder
  <1>9. CASE ClearRest(r)
    <2>1. i >= counter[r] /\ Deliver(r) /\ next' = counter[r] + 1
      BY <1>1, <1>9 DEF ClearRest
    <2>2. next < counter[r]
      BY <1>9 DEF ClearRest, Inv, LockOK
    <2> QED
      BY <1>4, <1>5, <2>1, <2>2, DeliverRefines
  <1> QED
    BY <1>3, <1>6, <1>7, <1>8, <1>9

\* The validator implements the one that remembers every counter it accepted.
THEOREM Refinement == Spec => ImplementsAntiReplay
  <1>1. Init => Abstract!Init
    BY DEF Init, Abstract!Init
  <1>2. Inv /\ [Next]_vars => [Abstract!Next]_(Abstract!vars)
    BY StepRefines
  <1> QED
    BY <1>1, <1>2, Invariance, PTL DEF Spec, ImplementsAntiReplay, Abstract!Spec
===============================================================================
