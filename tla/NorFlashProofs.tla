--------------------------- MODULE NorFlashProofs ---------------------------
(* Blocks of cells and sums that wrap, for the proofs about every component *)
(* that keeps something in the flash; and what the flash operations do to a *)
(* sector, a page and a region.                                             *)
EXTENDS TornFlash, WellFoundedInduction, TLAPS

(* Blocks: sectors and pages *)

\* Division with remainder.
LEMMA Division ==
  ASSUME NEW n \in Nat, NEW d \in Nat \ {0}
  PROVE  /\ n \div d \in Nat
         /\ n % d \in 0..(d - 1)
         /\ n = d * (n \div d) + (n % d)
  BY SMT

\* Multiplication keeps the order.
LEMMA Monotone ==
  ASSUME NEW d \in Nat, NEW x \in Nat, NEW y \in Nat, x =< y
  PROVE  d * x =< d * y
  BY SMT

\* Quotient and remainder are unique.
LEMMA UniqueDivision ==
  ASSUME NEW d \in Nat \ {0}, NEW p \in Nat, NEW q \in Nat,
         NEW r \in 0..(d - 1), NEW s \in 0..(d - 1), d * q + r = d * p + s
  PROVE  q = p /\ r = s
<1>1. d * q \in Nat /\ d * p \in Nat
  BY SMT
<1>2. ~(q + 1 =< p)
  <2> SUFFICES ASSUME q + 1 =< p PROVE FALSE
    OBVIOUS
  <2>1. d * (q + 1) =< d * p
    BY Monotone
  <2>2. d * (q + 1) = d * q + d
    BY SMT
  <2>3. QED
    BY <1>1, <2>1, <2>2, SMT
<1>3. ~(p + 1 =< q)
  <2> SUFFICES ASSUME p + 1 =< q PROVE FALSE
    OBVIOUS
  <2>1. d * (p + 1) =< d * q
    BY Monotone
  <2>2. d * (p + 1) = d * p + d
    BY SMT
  <2>3. QED
    BY <1>1, <2>1, <2>2, SMT
<1>4. p = q
  BY <1>2, <1>3, SMT
<1>5. QED
  BY <1>1, <1>4, SMT

\* The remainder of a multiple plus a small rest is the rest.
LEMMA MultipleRest ==
  ASSUME NEW d \in Nat \ {0}, NEW q \in Nat, NEW r \in 0..(d - 1)
  PROVE  (d * q + r) % d = r
<1> DEFINE n == d * q + r
<1>1. n \in Nat
  BY SMT
<1>2. /\ n \div d \in Nat /\ n % d \in 0..(d - 1)
      /\ n = d * (n \div d) + (n % d)
  BY <1>1, Division
<1> DEFINE p == n \div d
           s == n % d
<1>3. p \in Nat /\ s \in 0..(d - 1) /\ d * q + r = d * p + s
  BY <1>2
<1> HIDE DEF p, s
<1>4. r = s
  BY <1>3, UniqueDivision
<1>5. QED
  BY <1>4 DEF s

LEMMA RestOf ==
  ASSUME NEW d \in Nat \ {0}, NEW m \in Nat, NEW r \in 0..(d - 1), m % d = 0
  PROVE  (m + r) % d = r
<1> DEFINE q == m \div d
<1>1. q \in Nat /\ m = d * q + (m % d) /\ d * q \in Nat
  BY Division, SMT
<1> HIDE DEF q
<1>2. m = d * q
  BY <1>1, SMT
<1>3. QED
  BY <1>1, <1>2, MultipleRest

LEMMA SmallRest ==
  ASSUME NEW d \in Nat \ {0}, NEW r \in 0..(d - 1)
  PROVE  r % d = r
<1>1. 0 \in Nat /\ 0 % d = 0 /\ 0 + r = r
  BY SMT
<1>2. (0 + r) % d = r
  BY <1>1, RestOf
<1>3. QED
  BY <1>1, <1>2

\* A sum of multiples is one, and a multiple below another is a block below it.
LEMMA MultipleSum ==
  ASSUME NEW d \in Nat \ {0}, NEW m \in Nat, NEW n \in Nat,
         m % d = 0, n % d = 0
  PROVE  /\ (m + n) % d = 0
         /\ m < n => m + d =< n
<1> DEFINE p == m \div d
           q == n \div d
<1>1. /\ p \in Nat /\ m = d * p + (m % d) /\ d * p \in Nat
      /\ q \in Nat /\ n = d * q + (n % d) /\ d * q \in Nat
  BY Division, SMT
<1> HIDE DEF p, q
<1>2. m = d * p /\ n = d * q
  BY <1>1, SMT
<1>3. (m + n) % d = 0
  <2>1. m + n = d * (p + q) + 0 /\ p + q \in Nat /\ 0 \in 0..(d - 1)
    BY <1>1, <1>2, SMT
  <2>2. QED
    BY <2>1, MultipleRest
<1>4. ASSUME m < n
      PROVE  m + d =< n
  <2>1. ~(q =< p)
    BY <1>1, <1>2, <1>4, Monotone, SMT
  <2>2. d * (p + 1) =< d * q
    BY <1>1, <2>1, Monotone, SMT
  <2>3. d * (p + 1) = d * p + d
    BY <1>1, SMT
  <2>4. QED
    BY <1>1, <1>2, <2>2, <2>3, SMT
<1>5. QED
  BY <1>3, <1>4

\* A block of blocks.
LEMMA MultipleOfMultiple ==
  ASSUME NEW p \in Nat \ {0}, NEW s \in Nat \ {0}, s % p = 0,
         NEW n \in Nat, n % s = 0
  PROVE  n % p = 0
<1> DEFINE j == s \div p
           k == n \div s
<1>1. j \in Nat /\ s = p * j + (s % p) /\ p * j \in Nat
  BY Division, SMT
<1>2. k \in Nat /\ n = s * k + (n % s) /\ s * k \in Nat
  BY Division, SMT
<1> HIDE DEF j, k
<1>3. s = p * j /\ n = s * k
  BY <1>1, <1>2, SMT
<1>4. j * k \in Nat /\ n = p * (j * k) + 0 /\ 0 \in 0..(p - 1)
  BY <1>1, <1>2, <1>3, SMT
<1>5. (p * (j * k) + 0) % p = 0
  BY <1>4, MultipleRest
<1>6. QED
  BY <1>4, <1>5

\* The first cell of a block is a boundary.
LEMMA BlockBegins ==
  ASSUME NEW d \in Nat \ {0}, NEW n \in Nat
  PROVE  n - (n % d) \in Nat /\ (n - (n % d)) % d = 0
<1> DEFINE q == n \div d
<1>1. q \in Nat /\ n = d * q + (n % d) /\ n % d \in 0..(d - 1)
  BY Division
<1> HIDE DEF q
<1>2. n - (n % d) = d * q + 0 /\ n - (n % d) \in Nat /\ 0 \in 0..(d - 1)
  <2>1. d * q \in Nat
    BY <1>1, SMT
  <2>2. QED
    BY <1>1, <2>1
<1>3. (d * q + 0) % d = 0
  BY <1>1, <1>2, MultipleRest
<1>4. QED
  BY <1>1, <1>2, <1>3

\* A boundary between blocks has all of a block on one side.
LEMMA BlockSide ==
  ASSUME NEW d \in Nat \ {0}, NEW bound \in Nat, bound % d = 0,
         NEW a \in Nat, NEW b \in Nat, a - (a % d) = b - (b % d), b >= bound
  PROVE  a >= bound
<1> DEFINE qa == a \div d
           qb == b \div d
           ql == bound \div d
<1>1. /\ qa \in Nat /\ qb \in Nat /\ ql \in Nat
      /\ a % d \in 0..(d - 1) /\ b % d \in 0..(d - 1)
      /\ a = d * qa + (a % d) /\ b = d * qb + (b % d) /\ bound = d * ql
  <2>1. ql \in Nat /\ bound = d * ql + (bound % d) /\ d * ql \in Nat
    BY Division, SMT
  <2>2. bound = d * ql
    BY <2>1, SMT
  <2>3. qa \in Nat /\ a % d \in 0..(d - 1) /\ a = d * qa + (a % d)
    BY Division
  <2>4. qb \in Nat /\ b % d \in 0..(d - 1) /\ b = d * qb + (b % d)
    BY Division
  <2>5. QED
    BY <2>1, <2>2, <2>3, <2>4
<1> HIDE DEF qa, qb, ql
<1>2. d * qa \in Nat /\ d * qb \in Nat /\ d * ql \in Nat
  BY <1>1, SMT
<1>3. d * qa = d * qb
  BY <1>1, <1>2, SMT
<1>4. ~(qb + 1 =< ql)
  <2> SUFFICES ASSUME qb + 1 =< ql PROVE FALSE
    OBVIOUS
  <2>1. d * (qb + 1) =< d * ql
    BY <1>1, Monotone
  <2>2. d * (qb + 1) = d * qb + d
    BY <1>1, SMT
  <2>3. QED
    BY <1>1, <1>2, <2>1, <2>2, SMT
<1>5. d * ql =< d * qb
  BY <1>1, <1>4, Monotone, SMT
<1>6. QED
  BY <1>1, <1>2, <1>3, <1>5, SMT

\* The cells of the block that starts at a boundary.
LEMMA BlockAt ==
  ASSUME NEW d \in Nat \ {0}, NEW start \in Nat, start % d = 0, NEW a \in Nat
  PROVE  a - (a % d) = start - (start % d) <=> a \in start..(start + d - 1)
<1>1. ASSUME a \in start..(start + d - 1)
      PROVE  a - (a % d) = start
  <2>1. a - start \in 0..(d - 1)
    BY <1>1, SMT
  <2>2. (start + (a - start)) % d = a - start
    BY <2>1, RestOf
  <2>3. QED
    BY <2>2, SMT
<1>2. ASSUME a - (a % d) = start
      PROVE  a \in start..(start + d - 1)
  BY <1>2, Division, SMT
<1>3. QED
  BY <1>1, <1>2, SMT

\* A region that begins and ends at boundaries contains every block of its
\* cells, so an operation on one of its cells leaves the rest of the flash.
LEMMA RegionKeepsBlocks ==
  ASSUME NEW d \in Nat \ {0}, NEW lo \in Nat, NEW hi \in Nat,
         lo % d = 0, hi % d = 0, NEW b \in lo..(hi - 1),
         NEW a \in Nat, a \notin lo..(hi - 1)
  PROVE  a - (a % d) # b - (b % d)
<1> SUFFICES ASSUME a - (a % d) = b - (b % d) PROVE FALSE
  OBVIOUS
<1>0. b \in Nat /\ b >= lo
  BY SMT
<1>1. a >= lo
  BY <1>0, BlockSide
<1>2. a >= hi
  BY <1>1
<1>3. b >= hi
  BY <1>0, <1>2, BlockSide
<1>4. QED
  BY <1>3

LEMMA WrappedDifference ==
  ASSUME NEW d \in Nat \ {0}, NEW a \in 0..(d - 1), NEW b \in 0..(d - 1)
  PROVE  (a - b) % d = IF a >= b THEN a - b ELSE (a - b) + d
  BY SMT
-----------------------------------------------------------------------------
(* Sums that wrap *)

\* A remainder may be taken before or after an addition.
LEMMA RemainderOfSum ==
  ASSUME NEW d \in Nat \ {0}, NEW x \in Nat, NEW y \in Nat
  PROVE  ((x % d) + y) % d = (x + y) % d
<1> DEFINE q == x \div d
           r == x % d
           p == (r + y) \div d
           s == (r + y) % d
<1>1. q \in Nat /\ r \in 0..(d - 1) /\ x = d * q + r
  BY Division
<1>2. r + y \in Nat
  BY <1>1
<1>3. p \in Nat /\ s \in 0..(d - 1) /\ r + y = d * p + s
  BY <1>2, Division
<1> HIDE DEF q, r, p, s
<1>4. /\ d * q \in Nat /\ d * p \in Nat /\ q + p \in Nat
      /\ d * (q + p) = d * q + d * p
  BY <1>1, <1>3, SMT
<1>5. x + y = d * (q + p) + s
  BY <1>1, <1>3, <1>4, SMT
<1>6. (d * (q + p) + s) % d = s
  BY <1>3, <1>4, MultipleRest
<1>7. QED
  BY <1>5, <1>6 DEF s, r

\* Adding to a remainder the number it is a multiple of gives a multiple again,
\* and of d + 1 multiples the last has the remainder of the first.
LEMMA NextMultiple ==
  ASSUME NEW d \in Nat \ {0}, NEW n \in Nat, NEW k \in 1..d
  PROVE  \E m \in 1..d : (((k * n) % d) + n) % d = (m * n) % d
<1>1. k * n \in Nat /\ k * n + n = (k + 1) * n
  BY SMT
<1>2. (((k * n) % d) + n) % d = ((k + 1) * n) % d
  BY <1>1, RemainderOfSum
<1>3. CASE k < d
  <2>1. k + 1 \in 1..d
    BY <1>3
  <2>2. QED
    BY <1>2, <2>1
<1>4. CASE k = d
  <2> DEFINE q == n \div d
             s == n % d
  <2>1. q \in Nat /\ s \in 0..(d - 1) /\ n = d * q + s
    BY Division
  <2> HIDE DEF q, s
  <2>2. d * n \in Nat /\ d * q \in Nat /\ d * (n + q) = d * n + d * q
        /\ (d + 1) * n = d * n + n
    BY <2>1, SMT
  <2>3. (d + 1) * n = d * (n + q) + s
    BY <2>1, <2>2, SMT
  <2>4. (d * (n + q) + s) % d = s
    BY <2>1, MultipleRest
  <2>5. (1 * n) % d = s /\ 1 \in 1..d
    <3>1. 1 * n = n
      BY SMT
    <3>2. QED
      BY <3>1 DEF s
  <2>6. QED
    BY <1>2, <1>4, <2>3, <2>4, <2>5
<1>5. QED
  BY <1>3, <1>4
-----------------------------------------------------------------------------
(* Induction.  The library's induction theorems have an operator as parameter; *)
(* these are about sets.                                                       *)

LEMMA NatMinimum ==
  ASSUME NEW T \in SUBSET Nat, T # {}
  PROVE  \E x \in T : \A y \in T : x =< y
<1> DEFINE R == OpToRel(<, Nat)
<1>1. IsWellFoundedOn(R, Nat)
  BY NatLessThanWellFounded
<1>2. \A x, y \in Nat : <<y, x>> \in R <=> y < x
  BY DEF OpToRel
<1> HIDE DEF R
<1>3. \E x \in T : \A y \in T : ~(<<y, x>> \in R)
  BY <1>1, WFMin
<1>4. \A x, y \in T : x \in Nat /\ y \in Nat /\ (~(y < x) => x =< y)
  OBVIOUS
<1>5. QED
  BY <1>2, <1>3, <1>4

LEMMA SetInduction ==
  ASSUME NEW S, 0 \in S, \A n \in Nat : n \in S => n + 1 \in S
  PROVE  \A n \in Nat : n \in S
<1> SUFFICES ASSUME NEW m \in Nat, m \notin S PROVE FALSE
  OBVIOUS
<1> DEFINE T == {n \in Nat : n \notin S}
<1>1. PICK x \in T : \A y \in T : x =< y
  BY NatMinimum
<1>2. x # 0 /\ x - 1 \in Nat
  BY <1>1
<1>3. x - 1 \notin T
  BY <1>1
<1>4. QED
  BY <1>1, <1>2, <1>3

\* The partial sums of n numbers exist.
Partial(f, n, g) ==
  f = [m \in 0..n |-> IF m = 0 THEN 0 ELSE f[m - 1] + g[m - 1]]

LEMMA PartialExists ==
  ASSUME NEW g PROVE \A n \in Nat : \E f : Partial(f, n, g)
<1> DEFINE S == {n \in Nat : \E f : Partial(f, n, g)}
<1>1. 0 \in S
  <2>1. Partial([m \in 0..0 |-> 0], 0, g)
    BY DEF Partial
  <2>2. QED
    BY <2>1
<1>2. ASSUME NEW n \in Nat, n \in S PROVE n + 1 \in S
  <2>1. PICK f : Partial(f, n, g)
    BY <1>2
  <2> DEFINE h == [m \in 0..(n + 1) |-> IF m =< n THEN f[m] ELSE f[n] + g[n]]
  <2>2. ASSUME NEW m \in 0..(n + 1)
        PROVE  h[m] = IF m = 0 THEN 0 ELSE h[m - 1] + g[m - 1]
    <3>1. CASE m =< n
      <4>1. m \in 0..n /\ h[m] = f[m] /\ (m # 0 => m - 1 =< n /\ h[m - 1] = f[m - 1])
        BY <2>2, <3>1
      <4>2. QED
        BY <2>1, <4>1 DEF Partial
    <3>2. CASE ~(m =< n)
      <4>1. m = n + 1 /\ m # 0 /\ m - 1 = n /\ h[n] = f[n] /\ h[m] = f[n] + g[n]
        BY <2>2, <3>2
      <4>2. QED
        BY <4>1
    <3>3. QED
      BY <3>1, <3>2
  <2>3. Partial(h, n + 1, g)
    BY <2>2 DEF Partial
  <2>4. QED
    BY <2>3
<1> HIDE DEF S
<1>3. \A n \in Nat : n \in S
  BY <1>1, <1>2, SetInduction
<1>4. QED
  BY <1>3 DEF S

\* Sums of natural numbers are natural numbers.
LEMMA PartialTyped ==
  ASSUME NEW n \in Nat, NEW g, \A i \in 0..(n - 1) : g[i] \in Nat,
         NEW f, Partial(f, n, g)
  PROVE  \A m \in 0..n : f[m] \in Nat
<1> DEFINE S == {m \in Nat : m =< n => f[m] \in Nat}
<1>1. 0 \in S
  BY DEF Partial
<1>2. ASSUME NEW m \in Nat, m \in S PROVE m + 1 \in S
  <2> SUFFICES ASSUME m + 1 =< n PROVE f[m + 1] \in Nat
    OBVIOUS
  <2>1. m + 1 \in 0..n /\ m + 1 # 0 /\ (m + 1) - 1 = m
    OBVIOUS
  <2>2. f[m + 1] = f[m] + g[m]
    BY <2>1 DEF Partial
  <2>3. f[m] \in Nat /\ g[m] \in Nat
    BY <1>2
  <2>4. QED
    BY <2>2, <2>3
<1> HIDE DEF S
<1>3. \A m \in Nat : m \in S
  BY <1>1, <1>2, SetInduction
<1>4. QED
  BY <1>3 DEF S
-----------------------------------------------------------------------------

(* The flash operations *)

\* Erasing and programming yield a flash again.
LEMMA EraseTyped ==
  ASSUME NEW flash \in Flash, NEW address
  PROVE  flash_erase_sector(flash, address) \in Flash
  BY FlashAssumption DEF flash_erase_sector, Flash

\* What the chip keeps is of the data sent and, within a page, the byte itself.
LEMMA LastSentRange ==
  ASSUME NEW len \in Nat, NEW i \in Nat, i < len
  PROVE  /\ LastSent(i, len) \in 0..(len - 1)
         /\ len =< PageSize => LastSent(i, len) = i
<1> DEFINE n == len - 1 - i
           d == PageSize
           q == n \div d
<1>1. n \in Nat /\ d \in Nat \ {0} /\ n + i = len - 1
      /\ LastSent(i, len) = i + d * q
  BY FlashAssumption DEF LastSent
<1> HIDE DEF n, d
<1>2. q \in Nat /\ n = d * q + (n % d) /\ n % d \in 0..(d - 1)
  BY <1>1, Division
<1>3. n < d => q = 0
  BY <1>1, SMT
<1> HIDE DEF q
<1>4. d * q \in Nat /\ (n < d => d * q = 0)
  BY <1>1, <1>2, <1>3, SMT
<1>5. i + d * q \in 0..(len - 1)
  BY <1>1, <1>2, <1>4
<1>6. len =< d => i + d * q = i
  BY <1>1, <1>4
<1>7. QED
  BY <1>1, <1>5, <1>6 DEF d

LEMMA WriteTyped ==
  ASSUME NEW flash \in Flash, NEW address \in Nat, NEW len \in Nat, NEW data,
         \A i \in Nat : i < len => data[i] \in Byte
  PROVE  flash_write_page(flash, address, len, data) \in Flash
<1>1. ASSUME NEW a \in Cells, (a - address) % PageSize < len
      PROVE  And(flash[a], data[LastSent((a - address) % PageSize, len)]) \in Byte
  <2> DEFINE i == (a - address) % PageSize
  <2>1. i \in Nat
    BY FlashAssumption, SMT DEF Cells
  <2> HIDE DEF i
  <2>2. LastSent(i, len) \in 0..(len - 1)
    BY <1>1, <2>1, LastSentRange DEF i
  <2>3. data[LastSent(i, len)] \in Byte
    BY <2>2
  <2>4. QED
    BY <1>1, <2>3, AndAssumption DEF Flash, i
<1>2. QED
  BY <1>1 DEF flash_write_page, Flash

\* Up to a page, each cell gets the byte that was sent for it.
LEMMA WriteShort ==
  ASSUME NEW flash, NEW address \in Nat, NEW len \in Nat, len =< PageSize, NEW data
  PROVE  flash_write_page(flash, address, len, data) =
           [a \in Cells |->
              IF PageOf(a) = PageOf(address) /\ (a - address) % PageSize < len
              THEN And(flash[a], data[(a - address) % PageSize]) ELSE flash[a]]
<1>1. ASSUME NEW a \in Cells, (a - address) % PageSize < len
      PROVE  LastSent((a - address) % PageSize, len) = (a - address) % PageSize
  <2> DEFINE i == (a - address) % PageSize
  <2>1. i \in Nat
    BY FlashAssumption, SMT DEF Cells
  <2> HIDE DEF i
  <2>2. LastSent(i, len) = i
    BY <1>1, <2>1, LastSentRange DEF i
  <2>3. QED
    BY <2>2 DEF i
<1>2. QED
  BY <1>1 DEF flash_write_page

LEMMA EraseOutside ==
  ASSUME NEW flash \in Flash, NEW lo \in Nat, NEW hi \in Nat,
         lo % SectorSize = 0, hi % SectorSize = 0,
         NEW address \in lo..(hi - 1), NEW a \in Cells \ (lo..(hi - 1))
  PROVE  flash_erase_sector(flash, address)[a] = flash[a]
<1>1. SectorOf(a) # SectorOf(address)
  <2>1. a \in Nat /\ SectorSize \in Nat \ {0}
    BY FlashAssumption DEF Cells
  <2>2. a - (a % SectorSize) # address - (address % SectorSize)
    BY <2>1, RegionKeepsBlocks
  <2>3. QED
    BY <2>2 DEF SectorOf
<1>2. QED
  BY <1>1 DEF flash_erase_sector

LEMMA WriteOutside ==
  ASSUME NEW flash \in Flash, NEW lo \in Nat, NEW hi \in Nat,
         lo % PageSize = 0, hi % PageSize = 0, NEW len, NEW data,
         NEW address \in lo..(hi - 1), NEW a \in Cells \ (lo..(hi - 1))
  PROVE  flash_write_page(flash, address, len, data)[a] = flash[a]
<1>1. PageOf(a) # PageOf(address)
  <2>1. a \in Nat /\ PageSize \in Nat \ {0}
    BY FlashAssumption DEF Cells
  <2>2. a - (a % PageSize) # address - (address % PageSize)
    BY <2>1, RegionKeepsBlocks
  <2>3. QED
    BY <2>2 DEF PageOf
<1>2. QED
  BY <1>1 DEF flash_write_page

\* Erasing at a boundary erases the sector that begins there, no other cell.
LEMMA EraseAt ==
  ASSUME NEW flash \in Flash, NEW start \in Nat, start % SectorSize = 0,
         NEW a \in Cells
  PROVE  flash_erase_sector(flash, start)[a] =
           IF a \in start..(start + SectorSize - 1) THEN Erased ELSE flash[a]
<1>1. SectorSize \in Nat \ {0} /\ a \in Nat
  BY FlashAssumption DEF Cells
<1>2. SectorOf(a) = SectorOf(start) <=> a \in start..(start + SectorSize - 1)
  BY <1>1, BlockAt DEF SectorOf
<1>3. QED
  BY <1>2 DEF flash_erase_sector

\* Programming a whole erased page from its beginning stores the data there.
LEMMA WriteAt ==
  ASSUME NEW flash \in Flash, NEW start \in Nat, start % PageSize = 0,
         NEW data \in [0..(PageSize - 1) -> Byte], NEW a \in Cells,
         a \in start..(start + PageSize - 1) => flash[a] = Erased
  PROVE  flash_write_page(flash, start, PageSize, data)[a] =
           IF a \in start..(start + PageSize - 1)
           THEN data[a - start] ELSE flash[a]
<1>1. PageSize \in Nat \ {0} /\ a \in Nat
  BY FlashAssumption DEF Cells
<1>2. PageOf(a) = PageOf(start) <=> a \in start..(start + PageSize - 1)
  BY <1>1, BlockAt DEF PageOf
<1>3. CASE a \in start..(start + PageSize - 1)
  <2>1. a - start \in 0..(PageSize - 1)
    BY <1>1, <1>3
  <2>2. (a - start) % PageSize = a - start
    BY <1>1, <2>1, SmallRest
  <2>3. And(Erased, data[a - start]) = data[a - start]
    BY <2>1, AndAssumption
  <2>4. QED
    BY <1>1, <1>2, <1>3, <2>1, <2>2, <2>3, WriteShort
<1>4. CASE a \notin start..(start + PageSize - 1)
  BY <1>2, <1>4 DEF flash_write_page
<1>5. QED
  BY <1>3, <1>4

\* Cells of one page lie in one sector.
LEMMA SamePageSameSector ==
  ASSUME NEW a \in Nat, NEW b \in Nat, PageOf(a) = PageOf(b)
  PROVE  SectorOf(a) = SectorOf(b)
<1> DEFINE lo == b - (b % SectorSize)
<1>1. PageSize \in Nat \ {0} /\ SectorSize \in Nat \ {0} /\ SectorSize % PageSize = 0
      /\ SectorSize % SectorSize = 0
  BY FlashAssumption, SMT
<1>2. lo \in Nat /\ lo % SectorSize = 0
  BY <1>1, BlockBegins
<1>3. b \in lo..(lo + SectorSize - 1)
  <2>1. b % SectorSize \in 0..(SectorSize - 1)
    BY <1>1, Division
  <2>2. QED
    BY <1>1, <2>1
<1> HIDE DEF lo
<1>4. lo % PageSize = 0 /\ lo + SectorSize \in Nat /\ (lo + SectorSize) % PageSize = 0
  <2>1. lo % PageSize = 0 /\ SectorSize \in Nat
    BY <1>1, <1>2, MultipleOfMultiple
  <2>2. (lo + SectorSize) % PageSize = 0
    BY <1>1, <1>2, <2>1, MultipleSum
  <2>3. QED
    BY <1>1, <1>2, <2>1, <2>2
<1>5. a \in lo..(lo + SectorSize - 1)
  <2> SUFFICES ASSUME a \notin lo..(lo + SectorSize - 1) PROVE FALSE
    OBVIOUS
  <2> DEFINE hi == lo + SectorSize
  <2>1. hi \in Nat /\ hi % PageSize = 0 /\ b \in lo..(hi - 1) /\ a \notin lo..(hi - 1)
    BY <1>1, <1>2, <1>3, <1>4
  <2> HIDE DEF hi
  <2>2. a - (a % PageSize) # b - (b % PageSize)
    BY <1>1, <1>2, <1>4, <2>1, RegionKeepsBlocks
  <2>3. QED
    BY <2>2 DEF PageOf
<1>6. a - (a % SectorSize) = lo - (lo % SectorSize)
  BY <1>1, <1>2, <1>5, BlockAt
<1>7. b - (b % SectorSize) = lo - (lo % SectorSize)
  BY <1>1, <1>2, <1>3, BlockAt
<1>8. QED
  BY <1>6, <1>7 DEF SectorOf

\* An operation on another sector or page leaves a cell as it is.
LEMMA EraseElsewhere ==
  ASSUME NEW flash, NEW address, NEW a \in Cells, SectorOf(a) # SectorOf(address)
  PROVE  flash_erase_sector(flash, address)[a] = flash[a]
  BY DEF flash_erase_sector

LEMMA WriteElsewhere ==
  ASSUME NEW flash, NEW address, NEW len, NEW data, NEW a \in Cells,
         PageOf(a) # PageOf(address)
  PROVE  flash_write_page(flash, address, len, data)[a] = flash[a]
  BY DEF flash_write_page

\* Programming inside a page reaches the cells from the address on.
LEMMA WriteWithin ==
  ASSUME NEW flash \in Flash, NEW address \in Nat, NEW len \in Nat,
         len =< PageSize - (address % PageSize), NEW data, NEW a \in Cells
  PROVE  flash_write_page(flash, address, len, data)[a] =
           IF a \in address..(address + len - 1)
           THEN And(flash[a], data[a - address]) ELSE flash[a]
<1> DEFINE r == address % PageSize
           q == a % PageSize
           page == address - r
<1>1. PageSize \in Nat \ {0} /\ a \in Nat
  BY FlashAssumption DEF Cells
<1>2. r \in 0..(PageSize - 1) /\ q \in 0..(PageSize - 1) /\ page \in Nat
      /\ page % PageSize = 0
  BY <1>1, Division, BlockBegins
<1>3. PageOf(a) = PageOf(address) <=> a - q = page
  BY DEF PageOf
<1> HIDE DEF r, q
<1>4. CASE a - q = page
  <2>1. a - address = q - r
    BY <1>1, <1>2, <1>4
  <2>2. (a - address) % PageSize = IF q >= r THEN q - r ELSE (q - r) + PageSize
    BY <1>1, <1>2, <2>1, WrappedDifference
  <2>3. (a - address) % PageSize < len <=> a \in address..(address + len - 1)
    BY <1>1, <1>2, <1>4, <2>1, <2>2 DEF r
  <2>4. a \in address..(address + len - 1) => (a - address) % PageSize = a - address
    BY <1>1, <1>2, <1>4, <2>1, <2>2
  <2>5. len =< PageSize
    BY <1>1, <1>2 DEF r
  <2>6. QED
    BY <1>3, <1>4, <2>3, <2>4, <2>5, WriteShort
<1>5. CASE a - q # page
  <2>1. a \notin address..(address + len - 1)
    <3> SUFFICES ASSUME a \in address..(address + len - 1) PROVE FALSE
      OBVIOUS
    <3>1. a \in page..(page + PageSize - 1)
      BY <1>1, <1>2 DEF r
    <3>2. a - (a % PageSize) = page - (page % PageSize)
      <4> HIDE DEF page
      <4>1. QED
        BY <1>1, <1>2, <3>1, BlockAt
    <3>3. QED
      BY <1>2, <1>5, <3>2 DEF q
  <2>2. QED
    BY <1>3, <1>5, <2>1 DEF flash_write_page
<1>6. QED
  BY <1>4, <1>5

\* What an interrupted operation leaves is a flash, and it has not touched the
\* cells that the operation would not have changed.
LEMMA TornTyped ==
  ASSUME NEW fewer \in Flash, NEW more \in Flash, NEW torn \in Torn(fewer, more)
  PROVE  torn \in Flash
  BY TornAssumption, AndAssumption DEF Torn, Between, Flash

LEMMA TornSame ==
  ASSUME NEW fewer \in Flash, NEW more \in Flash, NEW torn \in Torn(fewer, more),
         NEW a \in Cells, fewer[a] = more[a]
  PROVE  torn[a] = more[a]
  BY TornAssumption DEF Torn, Between, Flash
=============================================================================
