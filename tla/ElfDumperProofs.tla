--------------------------- MODULE ElfDumperProofs ---------------------------
(***************************************************************************)
(* Loading and running the file that ElfDumper writes gives back the       *)
(* machine: proofs for memories, pages, gaps and registers of any size.    *)
(***************************************************************************)
EXTENDS ElfDumper, WellFoundedInduction, TLAPS

(* A word lies in a segment.                                               *)
In(a, seg) == seg.start <= a /\ a < End(seg)

(* A segment that holds what the memory holds, and is executable if the    *)
(* pages of the words in it that are not zero are.                         *)
Faithful(seg) ==
  /\ seg.start < End(seg)
  /\ seg.executable = executable[last_page(seg)]
  /\ \A a \in Words64 :
       In(a, seg) =>
         /\ seg.data[a - seg.start + 1] = memory[a]
         /\ memory[a] # 0 => seg.executable = executable[a \div Words]

(* Segments are in order and no two of them share a page.                  *)
Apart(segs) ==
  \A i, j \in DOMAIN segs : i < j => last_page(segs[i]) < first_page(segs[j])

(* Nothing below a word has been left out.                                 *)
Complete(segs, upto) ==
  \A a \in Words64 : a < upto /\ memory[a] # 0 => \E i \in DOMAIN segs : In(a, segs[i])

Scanned(segs, upto) ==
  /\ segs \in Seq(SegmentType)
  /\ \A i \in DOMAIN segs : Faithful(segs[i]) /\ End(segs[i]) <= upto
  /\ Apart(segs)
  /\ Complete(segs, upto)

(* The segments of the memory, without the restoring code.                 *)
Body == IF phase = "dumped" THEN Front(segments) ELSE segments

BodyIsScanned == Scanned(Body, start)

ScanIsInside == start <= Pages * Words /\ (page = Pages => start = Pages * Words)

(* The restoring code is where and what Dump made it.                      *)
RestoreStart == (first_page(Body[1]) - 1) * Words
RestoreData ==
  Registers \o [i \in 1 .. CodeLen |-> 1]
    \o <<((pc - (RestoreStart + Slots + CodeLen)) % Address) % (2 * Reach)>>

CodeIsBelow ==
  phase = "dumped" =>
    /\ page = Pages
    /\ Body # <<>> /\ Body[1].start > Words
    /\ segments = Append(Body, Segment(RestoreStart, RestoreData, TRUE))

IInv == TypeOK /\ ScanIsInside /\ BodyIsScanned /\ CodeIsBelow

-----------------------------------------------------------------------------
(* Division, for any divisor.                                              *)

(* A positive multiple of a number is at least the number.                 *)
LEMMA MultipleIsAtLeast ==
  ASSUME NEW w \in Nat, NEW k \in Int, k >= 1
  PROVE  w * k >= w
<1>1. w * k = w * (k - 1) + w
  OBVIOUS
<1>2. w * (k - 1) >= 0
  OBVIOUS
<1> QED BY <1>1, <1>2

(* Quotient and remainder.                                                 *)
LEMMA Division ==
  ASSUME NEW x \in Int, NEW w \in Nat \ {0}
  PROVE  /\ x \div w \in Int /\ x % w \in 0 .. w - 1
         /\ x = w * (x \div w) + (x % w)
  OBVIOUS

(* There is one quotient and one remainder.                                *)
LEMMA DivisionIs ==
  ASSUME NEW x \in Int, NEW w \in Nat \ {0}, NEW q \in Int, NEW r \in 0 .. w - 1,
         x = w * q + r
  PROVE  x \div w = q /\ x % w = r
<1> DEFINE k == x \div w
           t == x % w
<1>1. k \in Int /\ t \in 0 .. w - 1 /\ w * q + r = w * k + t
  BY Division
<1> HIDE DEF k, t
<1>2. ASSUME NEW a \in Int, NEW b \in Int, NEW u \in 0 .. w - 1, NEW v \in 0 .. w - 1,
             w * a + u = w * b + v, a > b
      PROVE  FALSE
  <2>1. w * (a - b) = v - u
    BY <1>2
  <2>2. w * (a - b) >= w
    BY <1>2, MultipleIsAtLeast
  <2> QED BY <2>1, <2>2
<1>3. q = k
  BY <1>1, <1>2
<1>4. r = t
  BY <1>1, <1>3
<1> QED BY <1>3, <1>4 DEF k, t

(* A word is in or above a page, or below it.                              *)
LEMMA PageBounds ==
  ASSUME NEW a \in Int, NEW p \in Int, NEW w \in Nat \ {0}
  PROVE  /\ a >= p * w <=> a \div w >= p
         /\ a < p * w <=> a \div w < p
<1> DEFINE q == a \div w
<1>1. q \in Int /\ w * q <= a /\ a < w * q + w
  BY Division
<1> HIDE DEF q
<1>2. q >= p => a >= p * w
  <2>1. q >= p => w * (q - p) >= 0
    BY <1>1
  <2>2. w * (q - p) = w * q - p * w
    BY <1>1
  <2> QED BY <1>1, <2>1, <2>2
<1>3. q < p => a < p * w
  <2>1. w * (p - q) = p * w - w * q
    BY <1>1
  <2>2. q < p => w * (p - q) >= w
    BY <1>1, MultipleIsAtLeast
  <2> QED BY <1>1, <2>1, <2>2
<1>4. p * w \in Int
  OBVIOUS
<1>5. /\ a >= p * w <=> q >= p
      /\ a < p * w <=> q < p
  BY <1>1, <1>2, <1>3, <1>4
<1> QED BY <1>5 DEF q

-----------------------------------------------------------------------------
(* Words, pages and segments.                                              *)

(* The size of the memory.                                                 *)
LEMMA Sizes ==
  /\ Pages \in Nat \ {0} /\ Words \in Nat \ {0} /\ Pages * Words \in Nat
  /\ Gap \in Nat
  BY PagesAssumption

(* The page of a word.                                                     *)
LEMMA PageOf ==
  ASSUME NEW a \in Int
  PROVE  /\ a \div Words \in Int
         /\ \A p \in Int : a >= p * Words /\ a < (p + 1) * Words => a \div Words = p
         /\ a \in Words64 => a \div Words \in 0 .. Pages - 1
<1>1. a \div Words \in Int
  BY Sizes, Division
<1>2. ASSUME NEW p \in Int, a >= p * Words, a < (p + 1) * Words PROVE a \div Words = p
  <2>1. a \div Words >= p
    BY <1>2, Sizes, PageBounds
  <2>2. p + 1 \in Int
    OBVIOUS
  <2>3. a \div Words < p + 1
    BY <1>2, <2>2, Sizes, PageBounds
  <2> QED BY <1>1, <2>1, <2>3
<1>3. ASSUME a \in Words64 PROVE a \div Words \in 0 .. Pages - 1
  <2>1. a >= 0 * Words /\ a < Pages * Words
    BY <1>3, Sizes DEF Words64
  <2>2. a \div Words >= 0 /\ a \div Words < Pages
    BY <2>1, Sizes, PageBounds
  <2> QED BY <1>1, <2>2, Sizes
<1> QED BY <1>1, <1>2, <1>3

(* Pages are in the order of their words.                                  *)
LEMMA PagesInOrder ==
  ASSUME NEW a \in Int, NEW b \in Int, a <= b
  PROVE  a \div Words <= b \div Words
<1> DEFINE p == a \div Words
<1>1. p \in Int
  BY PageOf
<1>2. a >= p * Words
  BY <1>1, Sizes, PageBounds
<1> HIDE DEF p
<1>3. b >= p * Words
  BY <1>1, <1>2, Sizes
<1>4. b \div Words >= p
  BY <1>1, <1>3, Sizes, PageBounds
<1> QED BY <1>1, <1>4, PageOf DEF p

(* The words of a segment lie in its pages.                                *)
LEMMA SegmentPages ==
  ASSUME NEW seg \in SegmentType, seg.start < End(seg)
  PROVE  /\ seg.start \in Words64 /\ seg.start \in Nat /\ seg.data \in Seq(Nat)
         /\ End(seg) \in Nat /\ End(seg) = seg.start + Len(seg.data)
         /\ first_page(seg) \in Nat /\ last_page(seg) \in Nat
         /\ first_page(seg) <= last_page(seg)
         /\ \A a \in Int : In(a, seg) => Touches(seg, a \div Words)
<1>1. seg.start \in Words64 /\ seg.data \in Seq(Nat) /\ seg.start \in Nat
  BY DEF SegmentType, Words64
<1>2. End(seg) \in Nat /\ End(seg) = seg.start + Len(seg.data)
  BY <1>1 DEF End
<1>3. first_page(seg) \in Int /\ last_page(seg) \in Int /\ first_page(seg) >= 0
  <2>1. seg.start \div Words \in 0 .. Pages - 1
    BY <1>1, PageOf
  <2>2. End(seg) - 1 \in Int
    BY <1>2
  <2>3. (End(seg) - 1) \div Words \in Int
    BY <2>2, PageOf
  <2> QED BY <2>1, <2>3 DEF first_page, last_page
<1>4. ASSUME NEW a \in Int, In(a, seg)
      PROVE  first_page(seg) <= a \div Words /\ a \div Words <= last_page(seg)
  <2>1. seg.start <= a /\ a <= End(seg) - 1 /\ End(seg) - 1 \in Int
    BY <1>1, <1>2, <1>4 DEF In
  <2> QED BY <1>1, <2>1, PagesInOrder DEF first_page, last_page
<1>5. first_page(seg) <= last_page(seg)
  <2>1. seg.start <= End(seg) - 1 /\ End(seg) - 1 \in Int
    BY <1>1, <1>2
  <2> QED BY <1>1, <2>1, PagesInOrder DEF first_page, last_page
<1>6. first_page(seg) \in Nat /\ last_page(seg) \in Nat
  BY <1>3, <1>5
<1>7. ASSUME NEW a \in Int, In(a, seg) PROVE Touches(seg, a \div Words)
  BY <1>3, <1>4, <1>7, PageOf DEF Touches
<1> QED BY <1>1, <1>2, <1>5, <1>6, <1>7

(* The ends of a list.                                                     *)
LEMMA Ends ==
  ASSUME NEW S, NEW s \in Seq(S), s # <<>>
  PROVE  /\ Len(s) \in Nat /\ Len(s) >= 1 /\ DOMAIN s = 1 .. Len(s) /\ Len(s) \in DOMAIN s
         /\ Last(s) = s[Len(s)] /\ Last(s) \in S
         /\ Front(s) \in Seq(S) /\ DOMAIN Front(s) = 1 .. Len(s) - 1
         /\ \A i \in 1 .. Len(s) - 1 : Front(s)[i] = s[i]
  BY DEF Last, Front

(* A list with one element more.                                           *)
LEMMA Appended ==
  ASSUME NEW S, NEW s \in Seq(S), NEW x \in S
  PROVE  /\ Append(s, x) \in Seq(S) /\ Append(s, x) # <<>> /\ DOMAIN s = 1 .. Len(s)
         /\ DOMAIN Append(s, x) = 1 .. Len(s) + 1 /\ Len(s) \in Nat
         /\ \A i \in 1 .. Len(s) : Append(s, x)[i] = s[i]
         /\ Append(s, x)[Len(s) + 1] = x
         /\ Front(Append(s, x)) = s /\ Last(Append(s, x)) = x
<1> DEFINE t == Append(s, x)
<1>1. /\ t \in Seq(S) /\ t # <<>> /\ DOMAIN s = 1 .. Len(s) /\ DOMAIN t = 1 .. Len(s) + 1
      /\ Len(t) = Len(s) + 1 /\ Len(s) \in Nat
      /\ (\A i \in 1 .. Len(s) : t[i] = s[i]) /\ t[Len(s) + 1] = x
  OBVIOUS
<1> HIDE DEF t
<1>2. Last(t) = x
  BY <1>1, Ends
<1>3. Front(t) = s
  <2>1. /\ Front(t) \in Seq(S) /\ DOMAIN Front(t) = 1 .. Len(s)
        /\ \A i \in 1 .. Len(s) : Front(t)[i] = s[i]
    <3>1. Len(t) - 1 = Len(s)
      BY <1>1
    <3>2. /\ Front(t) \in Seq(S) /\ DOMAIN Front(t) = 1 .. Len(t) - 1
          /\ \A i \in 1 .. Len(t) - 1 : Front(t)[i] = t[i]
      BY <1>1, Ends
    <3> QED BY <1>1, <3>1, <3>2
  <2>2. Len(Front(t)) = Len(s)
    BY <1>1, <2>1
  <2> QED BY <1>1, <2>1, <2>2
<1> QED BY <1>1, <1>2, <1>3 DEF t

-----------------------------------------------------------------------------
(* Scanning.                                                               *)

(* A set of numbers has a least one.                                       *)
LEMMA MinIs ==
  ASSUME NEW T \in SUBSET Nat, T # {}
  PROVE  Min(T) \in T /\ \A y \in T : Min(T) <= y
<1> DEFINE R == {ss \in Nat \X Nat : ss[1] < ss[2]}
<1>1. IsWellFoundedOn(R, Nat)
  BY NatLessThanWellFounded, Zenon DEF OpToRel
<1>2. PICK x \in T : \A y \in T : ~(<<y, x>> \in R)
  <2> HIDE DEF R
  <2> QED BY <1>1, WFMin, Zenon
<1>3. \A y \in T : x <= y
  <2> TAKE y \in T
  <2>1. x \in Nat /\ y \in Nat
    OBVIOUS
  <2>2. y < x => <<y, x>> \in R
    BY <2>1
  <2> QED BY <1>2, <2>1, <2>2
<1> QED BY <1>3 DEF Min

(* What the search for a word that is not zero finds, and for one that is. *)
IsNonzero(n, a, end) ==
  /\ n \in a .. end
  /\ n # end => memory[n] # 0
  /\ \A b \in a .. n - 1 : memory[b] = 0

IsZero(n, a, end) ==
  /\ n \in a .. end
  /\ n # end => memory[n] = 0
  /\ \A b \in a .. n - 1 : memory[b] # 0

(* Looking for a word that is not zero ...                                 *)
LEMMA NextNonzero ==
  ASSUME memory \in [Words64 -> Nat], NEW a \in Nat, NEW end \in Nat, a <= end,
         end <= Pages * Words
  PROVE  IsNonzero(NextWord(a, end, FALSE), a, end)
<1> DEFINE n == NextWord(a, end, FALSE)
           T == {b \in a .. end : b = end \/ (memory[b] = 0) = FALSE}
<1>1. T \in SUBSET Nat /\ end \in T
  OBVIOUS
<1>2. n \in T /\ \A y \in T : n <= y
  <2>1. n = Min(T)
    BY DEF NextWord
  <2> HIDE DEF n, T
  <2> QED BY <1>1, <2>1, MinIs
<1> HIDE DEF n
<1>3. n \in a .. end /\ (n # end => memory[n] # 0)
  BY <1>2
<1>4. ASSUME NEW b \in a .. n - 1 PROVE memory[b] = 0
  <2>1. b \in a .. end /\ ~(n <= b)
    BY <1>3
  <2>2. b \notin T
    BY <1>2, <2>1
  <2> QED BY <2>1, <2>2
<1> QED BY <1>3, <1>4 DEF n, IsNonzero

(* ... and for one that is.                                                *)
LEMMA NextZero ==
  ASSUME memory \in [Words64 -> Nat], NEW a \in Nat, NEW end \in Nat, a <= end,
         end <= Pages * Words
  PROVE  IsZero(NextWord(a, end, TRUE), a, end)
<1> DEFINE n == NextWord(a, end, TRUE)
           T == {b \in a .. end : b = end \/ (memory[b] = 0) = TRUE}
<1>1. T \in SUBSET Nat /\ end \in T
  OBVIOUS
<1>2. n \in T /\ \A y \in T : n <= y
  <2>1. n = Min(T)
    BY DEF NextWord
  <2> HIDE DEF n, T
  <2> QED BY <1>1, <2>1, MinIs
<1> HIDE DEF n
<1>3. n \in a .. end /\ (n # end => memory[n] = 0)
  BY <1>2
<1>4. ASSUME NEW b \in a .. n - 1 PROVE memory[b] # 0
  <2>1. b \in a .. end /\ ~(n <= b)
    BY <1>3
  <2>2. b \notin T
    BY <1>2, <2>1
  <2> QED BY <2>1, <2>2
<1> QED BY <1>3, <1>4 DEF n, IsZero

(* The words of a run.                                                     *)
LEMMA RunIs ==
  ASSUME memory \in [Words64 -> Nat], NEW s \in Nat, NEW e \in Nat, s < e, e <= Pages * Words
  PROVE  /\ Run(s, e) \in Seq(Nat) /\ Len(Run(s, e)) = e - s
         /\ \A k \in 1 .. e - s : Run(s, e)[k] = memory[s + k - 1]
<1>1. \A k \in 1 .. e - s : s + k - 1 \in Words64
  BY Sizes DEF Words64
<1>2. \A k \in 1 .. e - s : memory[s + k - 1] \in Nat
  BY <1>1
<1> QED BY <1>2 DEF Run

(* The run of words from s to e, none of them in another page.             *)
IsRun(s, e) ==
  /\ s \in Nat /\ e \in Nat /\ s < e /\ e <= Pages * Words
  /\ page \in 0 .. Pages - 1 /\ page * Words <= s /\ e <= (page + 1) * Words

(* The words from b to e.                                                  *)
Copies(d, b, e) ==
  /\ d \in Seq(Nat) /\ Len(d) = e - b
  /\ \A k \in 1 .. e - b : d[k] = memory[b + k - 1]

(* The page is executable if the words from b to s are.                    *)
SameExecutable(b, s) ==
  \A a \in b .. s - 1 : memory[a] # 0 => executable[page] = executable[a \div Words]

(* A segment up to the end of a run, holding what the memory holds, is as  *)
(* it should be if what it had before the run was.                         *)
LEMMA FaithfulIf ==
  ASSUME TypeOK, NEW s, NEW e, IsRun(s, e),
         NEW b \in Nat, b <= s, NEW d, Copies(d, b, e), SameExecutable(b, s),
         NEW N, N = Segment(b, d, executable[page])
  PROVE  /\ N \in SegmentType /\ Faithful(N)
         /\ N.start = b /\ End(N) = e /\ last_page(N) = page
<1> USE DEF Copies, SameExecutable
<1>1. executable[page] \in BOOLEAN
  BY DEF TypeOK, IsRun
<1>2. b \in Words64
  BY Sizes DEF IsRun, Words64
<1>3. N \in SegmentType
  BY <1>1, <1>2 DEF Segment, SegmentType
<1>4. N.start = b /\ N.data = d /\ N.executable = executable[page] /\ End(N) = e
  BY DEF Segment, End, IsRun
<1>5. \A a \in Int : s <= a /\ a < e => a \div Words = page
  <2> SUFFICES ASSUME NEW a \in Int, s <= a, a < e PROVE a \div Words = page
    OBVIOUS
  <2>1. page \in Int /\ page * Words \in Int /\ (page + 1) * Words \in Int
    BY Sizes DEF IsRun
  <2>2. a >= page * Words /\ a < (page + 1) * Words
    BY <2>1 DEF IsRun
  <2> QED BY <2>1, <2>2, PageOf
<1>6. last_page(N) = page
  <2>1. e - 1 \in Int /\ s <= e - 1 /\ e - 1 < e
    BY DEF IsRun
  <2> QED BY <1>4, <1>5, <2>1 DEF last_page
<1>7. ASSUME NEW a \in Words64, In(a, N)
      PROVE  /\ N.data[a - N.start + 1] = memory[a]
             /\ memory[a] # 0 => N.executable = executable[a \div Words]
  <2>1. a \in Int /\ b <= a /\ a < e
    BY <1>4, <1>7 DEF In, Words64
  <2>2. a - b + 1 \in 1 .. e - b /\ b + (a - b + 1) - 1 = a
    BY <2>1 DEF IsRun
  <2>3. d[a - b + 1] = memory[a]
    BY <2>2
  <2>4. CASE a < s
    <3>1. a \in b .. s - 1
      BY <2>1, <2>4 DEF IsRun
    <3> QED BY <1>4, <2>3, <3>1
  <2>5. CASE s <= a
    BY <1>4, <1>5, <2>1, <2>3, <2>5
  <2> QED BY <2>1, <2>4, <2>5 DEF IsRun
<1>8. Faithful(N)
  <2>1. N.start < End(N)
    BY <1>4 DEF IsRun
  <2> QED BY <1>4, <1>6, <1>7, <2>1 DEF Faithful
<1> QED BY <1>3, <1>4, <1>6, <1>8

(* Three lists in a row.                                                   *)
LEMMA ThreeLists ==
  ASSUME NEW x \in Seq(Nat), NEW y \in Seq(Nat), NEW z \in Seq(Nat)
  PROVE  LET d == (x \o y) \o z
         IN /\ d \in Seq(Nat) /\ Len(d) = Len(x) + Len(y) + Len(z)
            /\ \A k \in 1 .. Len(x) : d[k] = x[k]
            /\ \A k \in 1 .. Len(y) : d[Len(x) + k] = y[k]
            /\ \A k \in 1 .. Len(z) : d[Len(x) + Len(y) + k] = z[k]
<1> DEFINE xy == x \o y
<1>1. /\ xy \in Seq(Nat) /\ Len(xy) = Len(x) + Len(y)
      /\ \A k \in 1 .. Len(x) : xy[k] = x[k]
      /\ \A k \in 1 .. Len(y) : xy[Len(x) + k] = y[k]
  OBVIOUS
<1> DEFINE d == xy \o z
<1> HIDE DEF xy
<1>2. /\ d \in Seq(Nat) /\ Len(d) = Len(xy) + Len(z)
      /\ \A k \in 1 .. Len(xy) : d[k] = xy[k]
      /\ \A k \in 1 .. Len(z) : d[Len(xy) + k] = z[k]
  <2>1. xy \in Seq(Nat)
    BY <1>1
  <2> QED BY <2>1
<1> HIDE DEF d
<1>3. \A k \in 1 .. Len(x) : d[k] = x[k]
  <2> TAKE k \in 1 .. Len(x)
  <2>1. k \in 1 .. Len(xy)
    BY <1>1
  <2> QED BY <1>1, <1>2, <2>1
<1>4. \A k \in 1 .. Len(y) : d[Len(x) + k] = y[k]
  <2> TAKE k \in 1 .. Len(y)
  <2>1. Len(x) + k \in 1 .. Len(xy)
    BY <1>1
  <2> QED BY <1>1, <1>2, <2>1
<1> QED BY <1>1, <1>2, <1>3, <1>4 DEF d, xy

(* What Filled and Run make of the data of a segment.                      *)
LEMMA FilledRun ==
  ASSUME TypeOK, NEW s \in Nat, NEW e \in Nat, IsRun(s, e),
         NEW seg \in SegmentType, Faithful(seg), End(seg) <= s,
         \A a \in End(seg) .. s - 1 : memory[a] = 0
  PROVE  Copies(Filled(seg, s) \o Run(s, e), seg.start, e)
<1>0. PICK b \in Nat, n \in Nat :
        /\ seg.start = b /\ seg.data \in Seq(Nat) /\ Len(seg.data) = n /\ End(seg) = b + n
  BY SegmentPages DEF Faithful
<1>1. s < e /\ b + n <= s /\ e <= Pages * Words /\ Pages * Words \in Nat /\ memory \in [Words64 -> Nat]
  BY <1>0, Sizes DEF IsRun, TypeOK
<1> DEFINE x == seg.data
           y == [i \in 1 .. s - (b + n) |-> 0]
           z == Run(s, e)
           d == (x \o y) \o z
<1>2. y \in Seq(Nat) /\ Len(y) = s - (b + n) /\ \A k \in 1 .. s - (b + n) : y[k] = 0
  BY <1>1
<1>3. /\ z \in Seq(Nat) /\ Len(z) = e - s
      /\ \A k \in 1 .. e - s : z[k] = memory[s + k - 1]
  BY <1>1, RunIs
<1>4. Filled(seg, s) \o Run(s, e) = d
  BY <1>0 DEF Filled
<1>5. /\ d \in Seq(Nat) /\ Len(d) = Len(x) + Len(y) + Len(z)
      /\ \A k \in 1 .. Len(x) : d[k] = x[k]
      /\ \A k \in 1 .. Len(y) : d[Len(x) + k] = y[k]
      /\ \A k \in 1 .. Len(z) : d[Len(x) + Len(y) + k] = z[k]
  <2> HIDE DEF x, y, z
  <2> QED BY <1>0, <1>2, <1>3, ThreeLists DEF x
<1> HIDE DEF x, y, z, d
<1>6. Len(x) = n /\ Len(y) = s - (b + n) /\ Len(x) + Len(y) = s - b /\ Len(d) = e - b
  BY <1>0, <1>1, <1>2, <1>3, <1>5 DEF x
<1>7. ASSUME NEW k \in 1 .. e - b PROVE d[k] = memory[b + k - 1]
  <2>0. b + k - 1 \in Words64
    BY <1>1 DEF Words64
  <2>1. CASE k <= n
    <3>1. d[k] = x[k]
      BY <1>5, <1>6, <2>1
    <3>2. In(b + k - 1, seg)
      BY <1>0, <2>1 DEF In
    <3>3. seg.data[(b + k - 1) - b + 1] = memory[b + k - 1]
      BY <1>0, <2>0, <3>2 DEF Faithful
    <3>4. (b + k - 1) - b + 1 = k
      OBVIOUS
    <3> QED BY <3>1, <3>3, <3>4 DEF x
  <2>2. CASE n < k /\ k <= s - b
    <3>1. k - n \in 1 .. s - (b + n) /\ n + (k - n) = k
      BY <1>1, <2>2
    <3>2. d[k] = y[k - n]
      BY <1>5, <1>6, <3>1
    <3>3. b + k - 1 \in End(seg) .. s - 1
      BY <1>0, <2>2
    <3> QED BY <1>2, <3>1, <3>2, <3>3
  <2>3. CASE s - b < k
    <3>1. k - (s - b) \in 1 .. e - s /\ (s - b) + (k - (s - b)) = k
      BY <1>1, <2>3
    <3>2. d[k] = z[k - (s - b)]
      BY <1>3, <1>5, <1>6, <3>1
    <3>3. s + (k - (s - b)) - 1 = b + k - 1
      OBVIOUS
    <3> QED BY <1>3, <3>1, <3>2, <3>3
  <2> QED BY <2>1, <2>2, <2>3
<1> QED BY <1>0, <1>4, <1>5, <1>6, <1>7 DEF Copies

(* Appending a segment.                                                    *)
LEMMA AppendedScan ==
  ASSUME NEW segs \in Seq(SegmentType), NEW N \in SegmentType, NEW e \in Nat,
         \A i \in DOMAIN segs : Faithful(segs[i]) /\ End(segs[i]) <= e,
         Apart(segs), Faithful(N), End(N) = e,
         \A i \in DOMAIN segs : last_page(segs[i]) < first_page(N),
         \A a \in Words64 : a < e /\ memory[a] # 0 =>
           In(a, N) \/ \E i \in DOMAIN segs : In(a, segs[i])
  PROVE  Scanned(Append(segs, N), e)
<1> DEFINE t == Append(segs, N)
           n == Len(segs)
<1>1. /\ t \in Seq(SegmentType) /\ DOMAIN segs = 1 .. n /\ DOMAIN t = 1 .. n + 1 /\ n \in Nat
      /\ (\A i \in 1 .. n : t[i] = segs[i]) /\ t[n + 1] = N
  BY Appended
<1> HIDE DEF t, n
<1>2. ASSUME NEW i \in DOMAIN t PROVE Faithful(t[i]) /\ End(t[i]) <= e
  BY <1>1
<1>3. ASSUME NEW i \in DOMAIN t, NEW j \in DOMAIN t, i < j
      PROVE  last_page(t[i]) < first_page(t[j])
  <2>1. i \in 1 .. n /\ j \in 1 .. n + 1
    BY <1>1, <1>3
  <2>2. CASE j = n + 1
    BY <1>1, <2>1, <2>2
  <2>3. CASE j \in 1 .. n
    BY <1>1, <1>3, <2>1, <2>3 DEF Apart
  <2> QED BY <1>1, <2>1, <2>2, <2>3
<1>4. ASSUME NEW a \in Words64, a < e, memory[a] # 0 PROVE \E i \in DOMAIN t : In(a, t[i])
  <2>1. CASE In(a, N)
    BY <1>1, <2>1
  <2>2. CASE \E i \in DOMAIN segs : In(a, segs[i])
    BY <1>1, <2>2
  <2> QED BY <1>4, <2>1, <2>2
<1> QED BY <1>1, <1>2, <1>3, <1>4 DEF Scanned, Apart, Complete, t

(* Facts about one of the segments.                                        *)
LEMMA OneSegment ==
  ASSUME NEW segs, NEW upto, Scanned(segs, upto), NEW i \in DOMAIN segs
  PROVE  /\ segs[i] \in SegmentType /\ Faithful(segs[i]) /\ End(segs[i]) <= upto
         /\ segs[i].start \in Nat /\ End(segs[i]) \in Nat /\ segs[i].start < End(segs[i])
         /\ first_page(segs[i]) \in Nat /\ last_page(segs[i]) \in Nat
         /\ first_page(segs[i]) <= last_page(segs[i])
         /\ \A a \in Int : In(a, segs[i]) => Touches(segs[i], a \div Words)
<1>1. segs[i] \in SegmentType /\ Faithful(segs[i]) /\ End(segs[i]) <= upto
  BY DEF Scanned
<1>2. segs[i].start < End(segs[i])
  BY <1>1 DEF Faithful
<1> QED BY <1>1, <1>2, SegmentPages

(* A page is touched by one segment at most.                               *)
LEMMA OneTouches ==
  ASSUME NEW segs, NEW upto, Scanned(segs, upto), NEW i \in DOMAIN segs, NEW j \in DOMAIN segs,
         NEW p, Touches(segs[i], p), Touches(segs[j], p)
  PROVE  i = j
<1>1. i \in Nat /\ j \in Nat
  BY DEF Scanned
<1>2. ASSUME NEW k \in DOMAIN segs, NEW l \in DOMAIN segs, k < l,
             Touches(segs[k], p), Touches(segs[l], p)
      PROVE  FALSE
  <2>1. last_page(segs[k]) < first_page(segs[l])
    BY <1>2 DEF Scanned, Apart
  <2>2. /\ last_page(segs[k]) \in Nat /\ first_page(segs[l]) \in Nat
        /\ first_page(segs[k]) \in Nat /\ last_page(segs[l]) \in Nat
    BY OneSegment
  <2>3. p \in first_page(segs[k]) .. last_page(segs[k]) /\ p \in first_page(segs[l]) .. last_page(segs[l])
    BY <1>2 DEF Touches
  <2> QED BY <2>1, <2>2, <2>3
<1> QED BY <1>1, <1>2

(* Between the last segment and the scan there are only zeros.             *)
LEMMA GapIsEmpty ==
  ASSUME NEW segs, NEW upto, Scanned(segs, upto), segs # <<>>,
         NEW a \in Words64, End(Last(segs)) <= a, a < upto
  PROVE  memory[a] = 0
<1> DEFINE n == Len(segs)
<1>1. n \in DOMAIN segs /\ DOMAIN segs = 1 .. n /\ n \in Nat /\ Last(segs) = segs[n]
  BY Ends DEF Scanned
<1> SUFFICES ASSUME memory[a] # 0 PROVE FALSE
  OBVIOUS
<1>2. PICK i \in DOMAIN segs : In(a, segs[i])
  BY DEF Scanned, Complete
<1>3. /\ segs[n].start \in Nat /\ End(segs[n]) \in Nat /\ segs[n].start < End(segs[n])
      /\ first_page(segs[n]) \in Nat
  BY <1>1, OneSegment
<1>4. a \in Int /\ segs[n].start <= a
  BY <1>1, <1>3 DEF Words64
<1>5. i # n
  BY <1>1, <1>2, <1>3, <1>4 DEF In
<1>6. last_page(segs[i]) < first_page(segs[n])
  BY <1>1, <1>5 DEF Scanned, Apart
<1>7. a \div Words <= last_page(segs[i]) /\ last_page(segs[i]) \in Nat /\ a \div Words \in Int
  BY <1>2, <1>4, OneSegment, PageOf DEF Touches
<1>8. first_page(segs[n]) <= a \div Words
  BY <1>3, <1>4, PagesInOrder DEF first_page
<1> QED BY <1>3, <1>6, <1>7, <1>8

(* The scan appends a run, or joins it to the last segment.                *)
LEMMA ScannedRun ==
  ASSUME TypeOK, Scanned(segments, start), NEW s \in Nat, NEW e \in Nat, IsRun(s, e), start <= s,
         \A a \in start .. s - 1 : memory[a] = 0
  PROVE  Scanned(WithRun(s, e), e) /\ WithRun(s, e) \in Seq(SegmentType)
<1> DEFINE n == Len(segments)
           L == Last(segments)
<1>0. start \in Nat /\ s < e /\ e <= Pages * Words /\ page \in Nat /\ segments \in Seq(SegmentType)
  <2>1. start \in page * Words .. (page + 1) * Words /\ page \in 0 .. Pages
    BY DEF TypeOK
  <2>2. page * Words \in Nat
    BY <2>1, Sizes
  <2> QED BY <2>1, <2>2 DEF IsRun, Scanned
<1>1. ASSUME NEW a \in Words64, a < e, memory[a] # 0
      PROVE  (s <= a /\ a < e) \/ \E i \in DOMAIN segments : In(a, segments[i])
  <2>1. CASE a < start
    BY <1>1, <2>1 DEF Scanned, Complete
  <2>2. CASE start <= a /\ a < s
    <3>1. a \in start .. s - 1
      BY <1>0, <2>2 DEF Words64
    <3> QED BY <1>1, <3>1
  <2>3. a \in Nat
    BY DEF Words64
  <2> QED BY <1>0, <1>1, <2>1, <2>2, <2>3
<1>2. CASE segments # <<>> /\ Joins(L, s)
  <2> DEFINE d == Filled(L, s) \o Run(s, e)
             N == Segment(L.start, d, executable[page])
             F == Front(segments)
  <2>1. /\ n \in Nat /\ n >= 1 /\ DOMAIN segments = 1 .. n /\ L = segments[n]
        /\ F \in Seq(SegmentType) /\ DOMAIN F = 1 .. n - 1
        /\ \A i \in 1 .. n - 1 : F[i] = segments[i]
    BY <1>0, <1>2, Ends
  <2>2. /\ L \in SegmentType /\ Faithful(L) /\ End(L) <= start
        /\ L.start \in Nat /\ End(L) \in Nat /\ L.start < End(L)
    BY <2>1, OneSegment
  <2>3. \A a \in End(L) .. s - 1 : memory[a] = 0
    <3> TAKE a \in End(L) .. s - 1
    <3>1. a \in Words64 /\ a \in Nat
      BY <1>0, <2>2, Sizes DEF Words64
    <3>2. CASE a < start
      BY <1>2, <2>2, <3>1, <3>2, GapIsEmpty
    <3>3. CASE start <= a
      BY <1>0, <2>2, <3>1, <3>3
    <3> QED BY <1>0, <3>1, <3>2, <3>3
  <2>4. End(L) <= s
    BY <1>0, <2>2
  <2>5. Copies(d, L.start, e)
    BY <2>2, <2>3, <2>4, FilledRun
  <2> HIDE DEF d, L
  <2>6. SameExecutable(L.start, s)
    <3> USE DEF SameExecutable
    <3> TAKE a \in L.start .. s - 1
    <3>1. a \in Words64
      BY <1>0, <2>2, Sizes DEF Words64
    <3>2. CASE a < End(L)
      BY <1>2, <2>2, <3>1, <3>2 DEF Faithful, In, Joins
    <3>3. CASE End(L) <= a
      <4>1. a \in End(L) .. s - 1
        BY <2>2, <3>3
      <4> QED BY <2>3, <4>1
    <3> QED BY <2>2, <3>2, <3>3
  <2>7. N \in SegmentType /\ Faithful(N) /\ N.start = L.start /\ End(N) = e
    <3>1. L.start <= s
      BY <2>2, <2>4
    <3> QED BY <2>2, <2>5, <2>6, <3>1, FaithfulIf
  <2> HIDE DEF N, F
  <2>8. \A i \in DOMAIN F : Faithful(F[i]) /\ End(F[i]) <= e
    <3> TAKE i \in DOMAIN F
    <3>1. i \in DOMAIN segments /\ F[i] = segments[i]
      BY <2>1
    <3> QED BY <1>0, <3>1, OneSegment
  <2>9. Apart(F)
    BY <2>1 DEF Scanned, Apart
  <2>10. \A i \in DOMAIN F : last_page(F[i]) < first_page(N)
    BY <2>1, <2>7 DEF Scanned, Apart, first_page
  <2>11. \A a \in Words64 : a < e /\ memory[a] # 0 =>
           In(a, N) \/ \E i \in DOMAIN F : In(a, F[i])
    <3> SUFFICES ASSUME NEW a \in Words64, a < e, memory[a] # 0
                 PROVE  In(a, N) \/ \E i \in DOMAIN F : In(a, F[i])
      OBVIOUS
    <3>0. a \in Nat
      BY DEF Words64
    <3>1. CASE s <= a /\ a < e
      BY <1>0, <2>2, <2>4, <2>7, <3>0, <3>1 DEF In
    <3>2. CASE \E i \in DOMAIN segments : In(a, segments[i])
      <4>1. PICK i \in DOMAIN segments : In(a, segments[i])
        BY <3>2
      <4>2. CASE i = n
        BY <2>1, <2>7, <4>1, <4>2 DEF In
      <4>3. CASE i # n
        BY <2>1, <4>1, <4>3
      <4> QED BY <4>2, <4>3
    <3> QED BY <1>1, <3>1, <3>2
  <2>12. Scanned(Append(F, N), e)
    BY <2>1, <2>7, <2>8, <2>9, <2>10, <2>11, AppendedScan
  <2>13. WithRun(s, e) = Append(F, N)
    BY <1>2 DEF WithRun, F, N, d, L
  <2> QED BY <2>12, <2>13 DEF Scanned
<1>3. CASE ~(segments # <<>> /\ Joins(L, s))
  <2> DEFINE d == Run(s, e)
             N == Segment(s, d, executable[page])
  <2>1. Copies(d, s, e)
    BY <1>0, RunIs DEF TypeOK, Copies
  <2> HIDE DEF d
  <2>2. N \in SegmentType /\ Faithful(N) /\ N.start = s /\ End(N) = e /\ last_page(N) = page
    <3>1. s <= s /\ SameExecutable(s, s)
      BY DEF SameExecutable
    <3> QED BY <2>1, <3>1, FaithfulIf
  <2> HIDE DEF N
  <2>3. first_page(N) = page
    <3>1. /\ page \in Int /\ page * Words \in Int /\ (page + 1) * Words \in Int
          /\ page * Words <= s /\ e <= (page + 1) * Words
      BY Sizes, <1>0 DEF IsRun
    <3>2. s < (page + 1) * Words
      BY <1>0, <3>1
    <3> QED BY <2>2, <3>1, <3>2, PageOf DEF first_page
  <2>4. ASSUME segments # <<>> PROVE last_page(L) < page
    <3>1. n \in DOMAIN segments /\ L = segments[n]
      BY <1>0, <2>4, Ends
    <3>2. /\ Faithful(L) /\ End(L) <= start /\ End(L) \in Nat /\ last_page(L) \in Nat
      BY <3>1, OneSegment
    <3>3. last_page(L) <= page
      <4>1. End(L) - 1 <= s /\ End(L) - 1 \in Int
        BY <1>0, <3>2
      <4> QED BY <2>2, <2>3, <4>1, PagesInOrder DEF last_page, first_page
    <3>4. last_page(L) # page
      BY <1>3, <2>4, <3>2 DEF Joins, Faithful
    <3> QED BY <1>0, <3>2, <3>3, <3>4
  <2>5. \A i \in DOMAIN segments : last_page(segments[i]) < first_page(N)
    <3> TAKE i \in DOMAIN segments
    <3>0. segments # <<>>
      OBVIOUS
    <3>1. n \in DOMAIN segments /\ L = segments[n] /\ i \in 1 .. n /\ segments # <<>>
      BY <1>0, <3>0, Ends
    <3>2. CASE i = n
      BY <2>3, <2>4, <3>1, <3>2
    <3>3. CASE i # n
      <4>1. last_page(segments[i]) < first_page(L)
        BY <3>1, <3>3 DEF Scanned, Apart
      <4>2. first_page(L) <= last_page(L) /\ first_page(L) \in Nat /\ last_page(L) \in Nat
        BY <3>1, OneSegment
      <4>3. last_page(segments[i]) \in Nat
        BY OneSegment
      <4> QED BY <1>0, <2>3, <2>4, <3>1, <4>1, <4>2, <4>3
    <3> QED BY <3>2, <3>3
  <2>6. \A i \in DOMAIN segments : Faithful(segments[i]) /\ End(segments[i]) <= e
    <3> TAKE i \in DOMAIN segments
    <3> QED BY <1>0, OneSegment
  <2>7. \A a \in Words64 : a < e /\ memory[a] # 0 =>
          In(a, N) \/ \E i \in DOMAIN segments : In(a, segments[i])
    BY <1>1, <2>2 DEF In
  <2>8. Apart(segments)
    BY DEF Scanned
  <2>9. Scanned(Append(segments, N), e)
    BY <1>0, <2>2, <2>5, <2>6, <2>7, <2>8, AppendedScan
  <2>10. WithRun(s, e) = Append(segments, N)
    BY <1>3 DEF WithRun, N, d
  <2> QED BY <2>9, <2>10 DEF Scanned
<1> QED BY <1>2, <1>3

-----------------------------------------------------------------------------
(* The steps.                                                              *)

(* Before the scan has begun there are no segments to speak of.            *)
LEMMA InitInv == Init => IInv
<1> SUFFICES ASSUME Init PROVE IInv
  OBVIOUS
<1>1. memory \in [Words64 -> Nat] /\ executable \in [0 .. Pages - 1 -> BOOLEAN] /\ segments = <<>>
  BY MemoriesAssumption DEF Init
<1>2. pc \in Words64 /\ page \in 0 .. Pages
  <2>1. Pages * Words >= 1
    BY Sizes, MultipleIsAtLeast
  <2> QED BY <2>1, Sizes DEF Init, Words64
<1>3. start \in page * Words .. (page + 1) * Words
  <2>1. page * Words = 0 /\ (page + 1) * Words = Words
    BY Sizes DEF Init
  <2> QED BY <2>1, Sizes DEF Init
<1>4. TypeOK
  BY <1>1, <1>2, <1>3 DEF TypeOK, Init
<1>5. ScanIsInside
  BY Sizes DEF ScanIsInside, Init
<1>6. Scanned(<<>>, 0)
  BY DEF Scanned, Apart, Complete, Words64
<1>7. BodyIsScanned
  BY <1>1, <1>6 DEF BodyIsScanned, Body, Init
<1>8. CodeIsBelow
  BY DEF CodeIsBelow, Init
<1> QED BY <1>4, <1>5, <1>7, <1>8 DEF IInv

(* Where the scan of a page is.                                            *)
LEMMA Scanning ==
  ASSUME TypeOK, ScanIsInside, page < Pages
  PROVE  /\ page \in 0 .. Pages - 1 /\ start \in Nat /\ page * Words \in Nat /\ (page + 1) * Words \in Nat
         /\ page * Words <= start /\ start <= (page + 1) * Words
         /\ (page + 1) * Words <= Pages * Words
<1>1. /\ page \in 0 .. Pages - 1 /\ page * Words \in Nat /\ (page + 1) * Words \in Nat
      /\ start \in page * Words .. (page + 1) * Words
  BY Sizes DEF TypeOK
<1>2. (page + 1) * Words <= Pages * Words
  <2>1. Words * (Pages - (page + 1)) >= 0
    BY <1>1, Sizes
  <2>2. Words * (Pages - (page + 1)) = Pages * Words - (page + 1) * Words
    BY <1>1, Sizes
  <2> QED BY <1>1, <2>1, <2>2, Sizes
<1> QED BY <1>1, <1>2

(* A run of nonzero words joins the last segment or begins a new one.      *)
LEMMA ScanRunKeeps ==
  ASSUME IInv, ScanRun
  PROVE  IInv'
<1>1. PICK end \in Nat : end = (page + 1) * Words
  BY Scanning DEF ScanRun, IInv
<1>2. PICK s : s = NextWord(start, end, FALSE)
  OBVIOUS
<1>3. PICK e : e = NextWord(s, end, TRUE)
  OBVIOUS
<1>4. /\ page \in 0 .. Pages - 1 /\ start \in Nat /\ page * Words \in Nat /\ page * Words <= start
      /\ start <= end /\ end <= Pages * Words /\ memory \in [Words64 -> Nat] /\ Pages * Words \in Nat
  BY <1>1, Scanning, Sizes DEF ScanRun, IInv, TypeOK
<1>5. /\ s \in start .. end /\ s \in Nat
      /\ s # end => memory[s] # 0
      /\ \A b \in start .. s - 1 : memory[b] = 0
  <2>1. IsNonzero(s, start, end)
    BY <1>2, <1>4, NextNonzero, Zenon
  <2> QED BY <1>4, <2>1 DEF IsNonzero
<1>6. /\ e \in s .. end /\ e \in Nat
      /\ e # end => memory[e] = 0
  <2>1. s <= end
    BY <1>5
  <2>2. IsZero(e, s, end)
    BY <1>3, <1>4, <1>5, <2>1, NextZero, Zenon
  <2> QED BY <1>5, <2>2 DEF IsZero
<1>7. /\ start' = e /\ segments' = (IF s < end THEN WithRun(s, e) ELSE segments)
      /\ memory' = memory /\ executable' = executable /\ pc' = pc /\ page' = page /\ phase' = phase
      /\ phase = "scanning"
  BY <1>1, <1>2, <1>3 DEF ScanRun, machine
<1>8. Body = segments /\ Body' = segments'
  BY <1>7 DEF Body
<1>9. Scanned(segments, start)
  BY <1>8 DEF IInv, BodyIsScanned
<1>10. Scanned(IF s < end THEN WithRun(s, e) ELSE segments, e)
  <2>1. CASE s < end
    <3>1. s < e
      BY <1>5, <1>6, <2>1
    <3>2. IsRun(s, e)
      BY <1>1, <1>4, <1>5, <1>6, <3>1 DEF IsRun
    <3>3. TypeOK /\ start <= s
      BY <1>4, <1>5 DEF IInv
    <3> QED BY <1>5, <1>6, <1>9, <2>1, <3>2, <3>3, ScannedRun
  <2>2. CASE ~(s < end)
    <3>1. s = end /\ e = end
      BY <1>1, <1>5, <1>6, <2>2
    <3>2. ASSUME NEW i \in DOMAIN segments PROVE End(segments[i]) <= e
      BY <1>4, <1>9, <3>1, OneSegment
    <3>3. ASSUME NEW a \in Words64, a < e, memory[a] # 0
          PROVE  \E i \in DOMAIN segments : In(a, segments[i])
      <4>1. a < start
        <5>1. a \notin start .. s - 1
          BY <1>5, <3>3
        <5> QED BY <1>4, <1>5, <3>1, <3>3, <5>1 DEF Words64
      <4> QED BY <1>9, <3>3, <4>1 DEF Scanned, Complete
    <3>4. Scanned(segments, e)
      BY <1>9, <3>2, <3>3 DEF Scanned, Complete
    <3> QED BY <2>2, <3>4
  <2> QED BY <2>1, <2>2
<1>11. BodyIsScanned'
  <2> DEFINE T == IF s < end THEN WithRun(s, e) ELSE segments
  <2>1. PICK t : t = T
    OBVIOUS
  <2>2. Scanned(t, e) /\ segments' = t
    BY <1>7, <1>10, <2>1
  <2>3. Scanned(segments', start')
    BY <1>7, <2>2
  <2> QED BY <1>7, <1>8, <2>3
       DEF BodyIsScanned, Scanned, Faithful, Apart, Complete, In, End, first_page, last_page
<1>12. TypeOK'
  <2>1. segments' \in Seq(SegmentType)
    BY <1>8, <1>11 DEF BodyIsScanned, Scanned, SegmentType
  <2>2. start' \in page' * Words .. (page' + 1) * Words
    BY <1>1, <1>4, <1>5, <1>6, <1>7
  <2> QED BY <1>7, <2>1, <2>2 DEF IInv, TypeOK
<1>13. ScanIsInside' /\ CodeIsBelow'
  BY <1>1, <1>4, <1>5, <1>6, <1>7 DEF ScanIsInside, CodeIsBelow
<1> QED BY <1>11, <1>12, <1>13 DEF IInv

(* What is left of a page when the scan leaves it is zeros.                *)
LEMMA ScanNextPageKeeps ==
  ASSUME IInv, ScanNextPage
  PROVE  IInv'
<1>1. /\ page \in 0 .. Pages - 1 /\ start = (page + 1) * Words
      /\ (page + 1) * Words <= Pages * Words /\ (page + 1) * Words \in Nat
  BY Scanning DEF ScanNextPage, IInv
<1>2. /\ page' = page + 1 /\ start' = start /\ segments' = segments /\ phase' = phase
      /\ memory' = memory /\ executable' = executable /\ pc' = pc /\ phase = "scanning"
  BY DEF ScanNextPage, machine
<1>3. page' \in 0 .. Pages /\ start' \in page' * Words .. (page' + 1) * Words
  <2>1. page' \in 0 .. Pages
    BY <1>1, <1>2, Sizes
  <2>2. (page' + 1) * Words = start + Words
    BY <1>1, <1>2, Sizes
  <2>3. page' * Words = start
    BY <1>1, <1>2
  <2> QED BY <1>1, <1>2, <2>1, <2>2, <2>3, Sizes
<1>4. TypeOK'
  BY <1>2, <1>3 DEF IInv, TypeOK
<1>5. ScanIsInside'
  BY <1>1, <1>2 DEF ScanIsInside
<1>6. BodyIsScanned'
  BY <1>2 DEF IInv, BodyIsScanned, Body, Scanned, Faithful, Apart, Complete, In, End, first_page, last_page
<1>7. CodeIsBelow'
  BY <1>2 DEF CodeIsBelow
<1> QED BY <1>4, <1>5, <1>6, <1>7 DEF IInv

(* The page below the first segment is a page of the memory.               *)
LEMMA PageBelow ==
  ASSUME NEW seg \in SegmentType, seg.start < End(seg), seg.start > Words
  PROVE  LET p == first_page(seg) - 1
         IN /\ p \in 0 .. Pages - 1 /\ p * Words \in Words64
            /\ first_page_address(seg) - Words = p * Words
            /\ p * Words + Words <= Pages * Words
<1> DEFINE f == first_page(seg)
<1>1. f \in Nat /\ seg.start \in Nat /\ seg.start \in Words64
  BY SegmentPages
<1>2. f \in 0 .. Pages - 1
  BY <1>1, PageOf DEF first_page
<1>3. f >= 1
  <2>1. seg.start >= 1 * Words
    BY <1>1, Sizes
  <2> QED BY <1>1, <2>1, Sizes, PageBounds DEF first_page
<1>4. f * Words <= seg.start
  BY <1>1, Sizes, PageBounds DEF first_page
<1>5. first_page_address(seg) = f * Words
  BY DEF first_page_address
<1> HIDE DEF f
<1>6. (f - 1) * Words = f * Words - Words /\ (f - 1) * Words >= 0 /\ f * Words \in Int
  BY <1>1, <1>3, Sizes
<1>7. f - 1 \in 0 .. Pages - 1
  BY <1>2, <1>3, Sizes
<1>8. seg.start < Pages * Words
  BY <1>1, Sizes DEF Words64
<1>9. (f - 1) * Words \in Words64 /\ (f - 1) * Words + Words <= Pages * Words
  BY <1>1, <1>4, <1>6, <1>8, Sizes DEF Words64
<1> QED BY <1>5, <1>6, <1>7, <1>9 DEF f

(* The registers, the code and the jump.                                   *)
LEMMA BufferIs ==
  ASSUME NEW j \in Nat
  PROVE  LET d == (Registers \o [i \in 1 .. CodeLen |-> 1]) \o <<j>>
         IN /\ d \in Seq(Nat) /\ Len(d) = Slots + CodeLen + 1
            /\ \A i \in 1 .. Slots : d[i] = Registers[i]
            /\ d[Slots + CodeLen + 1] = j
<1> DEFINE y == [i \in 1 .. CodeLen |-> 1]
           z == <<j>>
           d == (Registers \o y) \o z
<1>1. Registers \in Seq(Nat) /\ Len(Registers) = Slots /\ Slots \in Nat /\ CodeLen \in Nat
  BY RegistersAssumption, CodeAssumption DEF Slots
<1>2. y \in Seq(Nat) /\ Len(y) = CodeLen
  BY <1>1
<1>3. z \in Seq(Nat) /\ Len(z) = 1 /\ z[1] = j
  OBVIOUS
<1> HIDE DEF y, z
<1>4. /\ d \in Seq(Nat) /\ Len(d) = Len(Registers) + Len(y) + Len(z)
      /\ \A k \in 1 .. Len(Registers) : d[k] = Registers[k]
      /\ \A k \in 1 .. Len(z) : d[Len(Registers) + Len(y) + k] = z[k]
  BY <1>1, <1>2, <1>3, ThreeLists
<1> HIDE DEF d
<1>5. /\ d \in Seq(Nat) /\ Len(d) = Slots + CodeLen + 1
      /\ \A i \in 1 .. Slots : d[i] = Registers[i]
      /\ d[Slots + CodeLen + 1] = j
  BY <1>1, <1>2, <1>3, <1>4
<1> QED BY <1>5 DEF d, y, z

(* The immediate of the jump is a number.                                  *)
LEMMA EncodedIs ==
  ASSUME NEW x \in Int
  PROVE  x % Address \in Nat /\ (x % Address) % (2 * Reach) \in Nat
<1>1. Address \in Nat \ {0} /\ 2 * Reach \in Nat \ {0}
  BY AddressAssumption, Sizes
<1>2. x % Address \in Nat
  BY <1>1, Division
<1>3. (x % Address) % (2 * Reach) \in Nat
  <2> DEFINE y == x % Address
  <2> HIDE DEF y
  <2>1. y \in Int
    BY <1>2 DEF y
  <2>2. PICK w \in Nat \ {0} : w = 2 * Reach
    BY <1>1
  <2>3. y % w \in Nat
    BY <2>1, Division
  <2> QED BY <2>2, <2>3 DEF y
<1> QED BY <1>2, <1>3

(* Dump adds the restoring segment and leaves the body as it is.           *)
LEMMA DumpKeeps ==
  ASSUME IInv, NEW target \in Targets, Dump(target)
  PROVE  IInv'
<1> DEFINE f == segments[1]
           r == (first_page(f) - 1) * Words
           jump == (((target - (r + Slots + CodeLen)) % Address) % (2 * Reach))
           data == (Registers \o [i \in 1 .. CodeLen |-> 1]) \o <<jump>>
           N == Segment(r, data, TRUE)
<1>1. /\ phase = "scanning" /\ page = Pages /\ phase' = "dumped" /\ pc' = target
      /\ segments # <<>> /\ f.start > Words
      /\ segments' = Append(segments, Segment(register_buffer_start, RegisterBuffer(target), TRUE))
      /\ memory' = memory /\ executable' = executable /\ page' = page /\ start' = start
  BY DEF Dump, Dumpable
<1>2. Scanned(segments, start) /\ segments \in Seq(SegmentType)
  BY <1>1 DEF IInv, BodyIsScanned, Body, TypeOK
<1>3. 1 \in DOMAIN segments
  BY <1>1, <1>2, Ends
<1>4. f \in SegmentType /\ f.start < End(f)
  BY <1>2, <1>3, OneSegment
<1>5. first_page(f) - 1 \in 0 .. Pages - 1 /\ r \in Words64 /\ first_page_address(f) - Words = r
  BY <1>1, <1>4, PageBelow
<1>6. register_buffer_start = r
  BY <1>5 DEF register_buffer_start
<1>7. RegisterBuffer(target) = data
  BY <1>6 DEF RegisterBuffer, Encoded, jump_offset, jump_instruction_pc, register_entrypoint
<1>8. target \in Words64 /\ target \in Int /\ r \in Int /\ Slots \in Nat /\ CodeLen \in Nat
  BY <1>5, TargetsAssumption, RegistersAssumption, CodeAssumption DEF Words64, Slots
<1>9. jump \in Nat
  <2>1. target - (r + Slots + CodeLen) \in Int
    BY <1>8
  <2> QED BY <2>1, EncodedIs
<1> HIDE DEF jump
<1>10. data \in Seq(Nat)
  BY <1>9, BufferIs
<1> HIDE DEF data, r
<1>11. N \in SegmentType
  BY <1>5, <1>10 DEF Segment, SegmentType
<1>12. segments' = Append(segments, N)
  BY <1>1, <1>6, <1>7
<1> HIDE DEF N
<1>13. segments' \in Seq(SegmentType) /\ segments' # <<>> /\ Front(segments') = segments
  BY <1>2, <1>11, <1>12, Appended
<1>14. Body' = segments
  BY <1>1, <1>13 DEF Body
<1>15. TypeOK'
  BY <1>1, <1>8, <1>13 DEF IInv, TypeOK, SegmentType, Words64
<1>16. ScanIsInside'
  BY <1>1 DEF IInv, ScanIsInside
<1>17. BodyIsScanned'
  BY <1>1, <1>2, <1>14
     DEF BodyIsScanned, Scanned, Faithful, Apart, Complete, In, End, first_page, last_page
<1>18. CodeIsBelow'
  <2>1. RestoreStart' = r
    BY <1>14 DEF RestoreStart, first_page, r
  <2>2. RestoreData' = data
    BY <1>1, <2>1 DEF RestoreData, data, jump
  <2>3. Segment(RestoreStart', RestoreData', TRUE) = N
    BY <2>1, <2>2 DEF N
  <2>4. Segment(RestoreStart, RestoreData, TRUE)' = N
    BY <2>3 DEF Segment
  <2> QED BY <1>1, <1>12, <1>14, <2>4 DEF CodeIsBelow
<1> QED BY <1>15, <1>16, <1>17, <1>18 DEF IInv

(* Nothing that matters changes.                                           *)
LEMMA RestKeeps ==
  ASSUME IInv, memory' = memory, executable' = executable, page' = page, start' = start,
         segments' = segments, pc' \in Words64,
         \/ phase' = phase /\ pc' = pc
         \/ phase # "dumped" /\ phase' = "error"
  PROVE  IInv'
<1>1. Body' = Body
  BY DEF Body
<1>2. TypeOK'
  BY DEF IInv, TypeOK
<1>3. ScanIsInside'
  BY DEF IInv, ScanIsInside
<1>4. BodyIsScanned'
  BY <1>1 DEF IInv, BodyIsScanned, Scanned, Faithful, Apart, Complete, In, End, first_page, last_page
<1>5. CodeIsBelow'
  <2>1. CASE phase' = phase /\ pc' = pc
    BY <1>1, <2>1 DEF IInv, CodeIsBelow, RestoreStart, RestoreData, first_page, Segment
  <2>2. CASE phase' = "error"
    BY <2>2 DEF CodeIsBelow
  <2> QED BY <2>1, <2>2
<1> QED BY <1>2, <1>3, <1>4, <1>5 DEF IInv

(* Every step of the dumper keeps the inductive invariant.                 *)
LEMMA StepInv == IInv /\ [Next]_vars => IInv'
<1> SUFFICES ASSUME IInv, [Next]_vars PROVE IInv'
  OBVIOUS
<1>1. CASE ScanRun
  BY <1>1, ScanRunKeeps
<1>2. CASE ScanNextPage
  BY <1>2, ScanNextPageKeeps
<1>3. ASSUME NEW target \in Targets, Dump(target) PROVE IInv'
  BY <1>3, DumpKeeps
<1>4. ASSUME NEW target \in Targets, DumpFails(target) PROVE IInv'
  <2>1. target \in Words64
    BY TargetsAssumption
  <2> QED BY <1>4, <2>1, RestKeeps DEF DumpFails
<1>5. CASE UNCHANGED vars
  BY <1>5, RestKeeps DEF vars, IInv, TypeOK
<1> QED BY <1>1, <1>2, <1>3, <1>4, <1>5 DEF Next, Over

(* The inductive invariant holds in every state.                           *)
LEMMA InvHolds == Spec => []IInv
<1> QED BY InitInv, StepInv, PTL DEF Spec

(* The variables of the dumper keep their types: the segments it builds    *)
(* and the restoring code it adds lie in the memory.                       *)
THEOREM TypeCorrect == Spec => []TypeOK
<1>1. IInv => TypeOK
  BY DEF IInv
<1> QED BY <1>1, InvHolds, PTL

-----------------------------------------------------------------------------
(* Loading the file.                                                       *)

(* The last segment that touches a page owns it.                           *)
LEMMA OwnerIs ==
  ASSUME TypeOK, NEW p, NEW i \in DOMAIN segments, Touches(segments[i], p),
         \A j \in DOMAIN segments : Touches(segments[j], p) => j <= i
  PROVE  Owner(p) = {segments[i]}
<1> DEFINE T == {j \in DOMAIN segments : Touches(segments[j], p)}
<1>1. i \in T /\ (\A j \in T : i >= j) /\ T \in SUBSET Nat
  BY DEF TypeOK
<1>2. Owner(p) = IF T = {} THEN {} ELSE {segments[Max(T)]}
  BY DEF Owner
<1> HIDE DEF T
<1>3. Max(T) \in T /\ \A j \in T : Max(T) >= j
  BY <1>1 DEF Max
<1>4. Max(T) = i
  <2>1. Max(T) \in Nat /\ i \in Nat /\ Max(T) >= i /\ i >= Max(T)
    BY <1>1, <1>3
  <2> QED BY <2>1
<1> QED BY <1>1, <1>2, <1>4

(* A word of a page that has an owner ...                                  *)
LEMMA OwnedWord ==
  ASSUME NEW a, NEW seg, Owner(a \div Words) = {seg}
  PROVE  LoadedWord(a) = IF In(a, seg) THEN seg.data[a - seg.start + 1] ELSE 0
<1> DEFINE in == {x \in Owner(a \div Words) : x.start <= a /\ a < End(x)}
<1>1. CASE In(a, seg)
  <2>1. in = {seg}
    BY <1>1 DEF In
  <2>2. (CHOOSE x \in in : TRUE) = seg /\ in # {}
    BY <2>1
  <2> HIDE DEF in
  <2> QED BY <1>1, <2>2 DEF LoadedWord, in
<1>2. CASE ~In(a, seg)
  <2>1. in = {}
    BY <1>2 DEF In
  <2> QED BY <1>2, <2>1 DEF LoadedWord
<1> QED BY <1>1, <1>2

(* ... and of one that has none.                                           *)
LEMMA FreeWord ==
  ASSUME NEW a, \A i \in DOMAIN segments : ~Touches(segments[i], a \div Words)
  PROVE  LoadedWord(a) = 0 /\ Owner(a \div Words) = {}
<1>1. Owner(a \div Words) = {}
  BY DEF Owner
<1> QED BY <1>1 DEF LoadedWord

(* The page of the restoring code.                                         *)
CodePage == first_page(Body[1]) - 1

(* The file: the segments of the memory, then the restoring code, alone in *)
(* its page.                                                               *)
LEMMA TheFile ==
  ASSUME IInv, phase = "dumped"
  PROVE  /\ Scanned(Body, Pages * Words) /\ Len(Body) \in Nat /\ Len(Body) >= 1
         /\ DOMAIN Body = 1 .. Len(Body) /\ DOMAIN segments = 1 .. Len(Body) + 1
         /\ \A i \in DOMAIN Body : segments[i] = Body[i]
         /\ segments[Len(Body) + 1] = RestoreSegment
         /\ RestoreSegment.start = RestoreStart /\ RestoreSegment.data = RestoreData
         /\ RestoreSegment = Segment(RestoreStart, RestoreData, TRUE)
         /\ CodePage \in 0 .. Pages - 1 /\ RestoreStart \in Words64
         /\ RestoreStart + Words <= Pages * Words
         /\ Body[1].start > Words
<1> DEFINE N == Segment(RestoreStart, RestoreData, TRUE)
<1>1. /\ segments = Append(Body, N) /\ Body # <<>> /\ Body[1].start > Words
      /\ page = Pages /\ start = Pages * Words
  BY DEF IInv, CodeIsBelow, ScanIsInside
<1>2. Scanned(Body, Pages * Words) /\ Body \in Seq(SegmentType)
  BY <1>1 DEF IInv, BodyIsScanned, Scanned
<1>3. Len(Body) \in Nat /\ Len(Body) >= 1 /\ DOMAIN Body = 1 .. Len(Body) /\ 1 \in DOMAIN Body
  BY <1>1, <1>2, Ends
<1>4. Body[1] \in SegmentType /\ Body[1].start < End(Body[1])
  BY <1>2, <1>3, OneSegment
<1>5. /\ CodePage \in 0 .. Pages - 1 /\ RestoreStart \in Words64
      /\ RestoreStart + Words <= Pages * Words
  BY <1>1, <1>4, PageBelow DEF CodePage, RestoreStart
<1>6. N.start = RestoreStart /\ N.data = RestoreData
  BY DEF Segment
<1> HIDE DEF N
<1>7. /\ DOMAIN segments = 1 .. Len(Body) + 1
      /\ \A i \in 1 .. Len(Body) : segments[i] = Body[i]
      /\ segments[Len(Body) + 1] = N /\ Len(segments) = Len(Body) + 1
  BY <1>1, <1>2, <1>3
<1>8. RestoreSegment = N
  BY <1>7 DEF RestoreSegment, Last
<1> QED BY <1>1, <1>2, <1>3, <1>5, <1>6, <1>7, <1>8 DEF N

(* The restoring code fits in its page.                                    *)
LEMMA CodeFits ==
  ASSUME IInv, phase = "dumped"
  PROVE  /\ RestoreData \in Seq(Nat) /\ Len(RestoreData) = Slots + CodeLen + 1
         /\ \A i \in 1 .. Slots : RestoreData[i] = Registers[i]
         /\ RestoreData[Slots + CodeLen + 1] =
              ((pc - (RestoreStart + Slots + CodeLen)) % Address) % (2 * Reach)
         /\ RestoreStart \in Nat /\ RestoreStart = CodePage * Words
         /\ End(RestoreSegment) = RestoreStart + Slots + CodeLen + 1
         /\ \A p : Touches(RestoreSegment, p) <=> p = CodePage
         /\ first_page(RestoreSegment) = CodePage
<1> DEFINE j == ((pc - (RestoreStart + Slots + CodeLen)) % Address) % (2 * Reach)
<1>1. Slots \in Nat /\ CodeLen \in Nat /\ Slots + CodeLen < Words
  BY RegistersAssumption, CodeAssumption DEF Slots
<1>2. /\ RestoreStart \in Nat /\ CodePage \in Int /\ RestoreSegment.start = RestoreStart
      /\ RestoreSegment.data = RestoreData
  <2>1. /\ RestoreStart \in Words64 /\ CodePage \in 0 .. Pages - 1
        /\ RestoreSegment.start = RestoreStart /\ RestoreSegment.data = RestoreData
    BY TheFile
  <2>2. RestoreStart \in Nat /\ CodePage \in Int
    BY <2>1, Sizes DEF Words64
  <2> QED BY <2>1, <2>2
<1>3. j \in Nat
  <2>1. pc - (RestoreStart + Slots + CodeLen) \in Int
    BY <1>1, <1>2 DEF IInv, TypeOK, Words64
  <2> QED BY <2>1, EncodedIs
<1> HIDE DEF j
<1>4. /\ RestoreData \in Seq(Nat) /\ Len(RestoreData) = Slots + CodeLen + 1
      /\ \A i \in 1 .. Slots : RestoreData[i] = Registers[i]
      /\ RestoreData[Slots + CodeLen + 1] = j
  <2>1. RestoreData = (Registers \o [i \in 1 .. CodeLen |-> 1]) \o <<j>>
    BY DEF RestoreData, j
  <2> QED BY <1>3, <2>1, BufferIs
<1>5. RestoreStart = CodePage * Words
  BY DEF RestoreStart, CodePage
<1>6. End(RestoreSegment) = RestoreStart + Slots + CodeLen + 1
  BY <1>1, <1>2, <1>4 DEF End
<1>7. ASSUME NEW k \in 0 .. Slots + CodeLen PROVE (RestoreStart + k) \div Words = CodePage
  <2>1. (CodePage + 1) * Words = CodePage * Words + Words
    BY <1>2, Sizes
  <2>2. RestoreStart + k \in Int /\ RestoreStart + k >= CodePage * Words
    BY <1>1, <1>2, <1>5
  <2>3. RestoreStart + k < (CodePage + 1) * Words
    BY <1>1, <1>2, <1>5, <2>1, Sizes
  <2> QED BY <1>2, <2>2, <2>3, PageOf
<1>8. first_page(RestoreSegment) = CodePage
  <2>1. 0 \in 0 .. Slots + CodeLen /\ RestoreStart + 0 = RestoreStart
    BY <1>1, <1>2
  <2> QED BY <1>2, <1>7, <2>1 DEF first_page
<1>9. last_page(RestoreSegment) = CodePage
  <2>1. /\ Slots + CodeLen \in 0 .. Slots + CodeLen
        /\ End(RestoreSegment) - 1 = RestoreStart + (Slots + CodeLen)
    BY <1>1, <1>2, <1>6
  <2> QED BY <1>7, <2>1 DEF last_page
<1>10. \A p : Touches(RestoreSegment, p) <=> p = CodePage
  BY <1>2, <1>8, <1>9 DEF Touches
<1> QED BY <1>2, <1>4, <1>5, <1>6, <1>8, <1>10 DEF j

(* Nothing was in the page of the restoring code.                          *)
LEMMA CodePageWasEmpty ==
  ASSUME IInv, phase = "dumped", NEW a \in Words64, a \div Words = CodePage
  PROVE  memory[a] = 0
<1> SUFFICES ASSUME memory[a] # 0 PROVE FALSE
  OBVIOUS
<1>1. a \in Int /\ a < Pages * Words
  BY Sizes DEF Words64
<1>2. Scanned(Body, Pages * Words) /\ DOMAIN Body = 1 .. Len(Body) /\ 1 \in DOMAIN Body
  BY TheFile
<1>3. PICK i \in DOMAIN Body : In(a, Body[i])
  BY <1>1, <1>2 DEF Scanned, Complete
<1>4. /\ first_page(Body[i]) \in Nat /\ last_page(Body[i]) \in Nat
      /\ a \div Words >= first_page(Body[i])
  <2>1. /\ first_page(Body[i]) \in Nat /\ last_page(Body[i]) \in Nat
        /\ Touches(Body[i], a \div Words)
    BY <1>1, <1>2, <1>3, OneSegment
  <2> QED BY <2>1 DEF Touches
<1>5. /\ first_page(Body[1]) \in Nat /\ last_page(Body[1]) \in Nat
      /\ first_page(Body[1]) <= last_page(Body[1])
  BY <1>2, OneSegment
<1>6. i # 1 => last_page(Body[1]) < first_page(Body[i])
  BY <1>2 DEF Scanned, Apart
<1> QED BY <1>4, <1>5, <1>6 DEF CodePage

(* What is not zero and not of the restoring code lies in the one segment  *)
(* that touches its page.                                                  *)
LEMMA MemoryComesBack ==
  ASSUME IInv, phase = "dumped", NEW a \in Words64, a \div Words # CodePage
  PROVE  /\ LoadedWord(a) = memory[a]
         /\ memory[a] # 0 =>
              \A seg \in Owner(a \div Words) : seg.executable = executable[a \div Words]
<1> DEFINE p == a \div Words
           n == Len(Body)
<1>1. a \in Int /\ a < Pages * Words /\ p \in Int
  BY Sizes, PageOf DEF Words64
<1>2. /\ Scanned(Body, Pages * Words) /\ DOMAIN Body = 1 .. n /\ n \in Nat
      /\ DOMAIN segments = 1 .. n + 1 /\ segments[n + 1] = RestoreSegment
      /\ \A i \in DOMAIN Body : segments[i] = Body[i]
  BY TheFile
<1>3. ~Touches(segments[n + 1], p)
  BY <1>2, CodeFits
<1>4. memory[a] # 0 => \E i \in DOMAIN Body : In(a, Body[i])
  BY <1>1, <1>2 DEF Scanned, Complete
<1>5. CASE \A i \in DOMAIN Body : ~Touches(Body[i], p)
  <2>1. \A i \in DOMAIN segments : ~Touches(segments[i], p)
    BY <1>2, <1>3, <1>5
  <2>2. LoadedWord(a) = 0 /\ Owner(p) = {}
    BY <2>1, FreeWord
  <2>3. memory[a] = 0
    BY <1>1, <1>2, <1>4, <1>5, OneSegment
  <2> QED BY <2>2, <2>3
<1>6. ASSUME NEW i \in DOMAIN Body, Touches(Body[i], p)
      PROVE  /\ LoadedWord(a) = memory[a]
             /\ memory[a] # 0 => \A seg \in Owner(p) : seg.executable = executable[p]
  <2>1. i \in DOMAIN segments /\ segments[i] = Body[i] /\ Touches(segments[i], p)
    BY <1>2, <1>6
  <2>2. ASSUME NEW j \in DOMAIN segments, Touches(segments[j], p) PROVE j <= i
    <3>1. j \in DOMAIN Body /\ segments[j] = Body[j]
      BY <1>2, <1>3, <2>2
    <3>2. j = i
      BY <1>2, <1>6, <2>2, <3>1, OneTouches
    <3> QED BY <1>2, <3>2
  <2>3. Owner(p) = {Body[i]}
    BY <2>1, <2>2, OwnerIs DEF IInv
  <2>4. LoadedWord(a) = IF In(a, Body[i]) THEN Body[i].data[a - Body[i].start + 1] ELSE 0
    BY <2>3, OwnedWord
  <2>5. memory[a] # 0 => In(a, Body[i])
    <3> SUFFICES ASSUME memory[a] # 0 PROVE In(a, Body[i])
      OBVIOUS
    <3>1. PICK j \in DOMAIN Body : In(a, Body[j])
      BY <1>4
    <3>2. Touches(Body[j], p)
      BY <1>1, <1>2, <3>1, OneSegment
    <3> QED BY <1>2, <1>6, <3>1, <3>2, OneTouches
  <2>6. Faithful(Body[i])
    BY <1>2, OneSegment
  <2>7. LoadedWord(a) = memory[a]
    BY <2>4, <2>5, <2>6 DEF Faithful
  <2>8. memory[a] # 0 => Body[i].executable = executable[p]
    BY <2>5, <2>6 DEF Faithful
  <2> QED BY <2>3, <2>7, <2>8
<1> QED BY <1>5, <1>6

(* The file gives back the memory: every word, and which of the pages that *)
(* hold anything are executable, whatever the memory, the size of pages    *)
(* and the gap that is filled; the page of the restoring code was empty.   *)
THEOREM MemoryIsRestored == Spec => []RestoresMemory
<1>1. ASSUME IInv PROVE RestoresMemory
  <2> SUFFICES ASSUME phase = "dumped", NEW a \in Words64
               PROVE  IF a \div Words = first_page(RestoreSegment)
                        THEN memory[a] = 0
                        ELSE /\ LoadedWord(a) = memory[a]
                             /\ memory[a] # 0 =>
                                  \A seg \in Owner(a \div Words) : seg.executable = executable[a \div Words]
    BY DEF RestoresMemory
  <2>1. first_page(RestoreSegment) = CodePage
    BY <1>1, CodeFits
  <2>2. CASE a \div Words = CodePage
    BY <1>1, <2>1, <2>2, CodePageWasEmpty
  <2>3. CASE a \div Words # CodePage
    BY <1>1, <2>1, <2>3, MemoryComesBack
  <2> QED BY <2>2, <2>3
<1> QED BY <1>1, InvHolds, PTL

-----------------------------------------------------------------------------
(* Running the restoring code.                                             *)

(* Relative to the base, the slot of every register holds its value.       *)
LEMMA SlotHolds ==
  ASSUME IInv, phase = "dumped", NEW i \in 1 .. Slots
  PROVE  /\ Base \in Int /\ Base + i \in Words64
         /\ LoadedWord(Base + i) = Registers[i]
<1> DEFINE n == Len(Body)
           b == RestoreStart
           R == RestoreSegment
<1>1. Slots \in Nat /\ CodeLen \in Nat /\ Slots + CodeLen < Words
  BY RegistersAssumption, CodeAssumption DEF Slots
<1>2. /\ b \in Nat /\ b + Words <= Pages * Words /\ R.start = b /\ R.data = RestoreData
      /\ n \in Nat /\ DOMAIN segments = 1 .. n + 1 /\ segments[n + 1] = R
  BY TheFile, CodeFits
<1>3. /\ RestoreData[i] = Registers[i] /\ b = CodePage * Words /\ CodePage \in 0 .. Pages - 1
      /\ End(R) = b + Slots + CodeLen + 1 /\ Touches(R, CodePage)
  BY CodeFits, TheFile
<1>4. Base = b - 1
  BY <1>1, <1>2 DEF Base, Entrypoint
<1> HIDE DEF n, b, R
<1>5. /\ Base \in Int /\ Base + i = b + (i - 1) /\ Base + i \in Words64 /\ Base + i \in Int
  BY <1>1, <1>2, <1>4, Sizes DEF Words64
<1>6. (Base + i) \div Words = CodePage
  <2>1. CodePage \in Int /\ (CodePage + 1) * Words = CodePage * Words + Words
    BY <1>3, Sizes
  <2>2. Base + i >= CodePage * Words /\ Base + i < (CodePage + 1) * Words
    BY <1>1, <1>2, <1>3, <1>5, <2>1, Sizes
  <2> QED BY <1>5, <2>1, <2>2, PageOf
<1>7. Owner(CodePage) = {R}
  <2>1. n + 1 \in DOMAIN segments /\ Touches(segments[n + 1], CodePage) /\ \A j \in DOMAIN segments : j <= n + 1
    BY <1>2, <1>3
  <2>2. Owner(CodePage) = {segments[n + 1]}
    BY <2>1, OwnerIs DEF IInv
  <2> QED BY <1>2, <2>2
<1>8. In(Base + i, R)
  BY <1>1, <1>2, <1>3, <1>5 DEF In
<1>9. LoadedWord(Base + i) = R.data[(Base + i) - R.start + 1]
  BY <1>6, <1>7, <1>8, OwnedWord
<1>10. (Base + i) - R.start + 1 = i
  BY <1>2, <1>5
<1> QED BY <1>2, <1>3, <1>5, <1>9, <1>10

(* Every register is loaded, the base last.                                *)
LEMMA OrderIs ==
  /\ \A k \in 1 .. Slots : LoadOrder[k] \in 1 .. Slots /\ (LoadOrder[k] = A0 <=> k = Slots)
  /\ \A i \in 1 .. Slots : \E k \in 1 .. Slots : LoadOrder[k] = i
<1>1. Slots \in Nat /\ A0 \in 1 .. Slots
  BY RegistersAssumption DEF Slots
<1>2. ASSUME NEW k \in 1 .. Slots
      PROVE  LoadOrder[k] \in 1 .. Slots /\ (LoadOrder[k] = A0 <=> k = Slots)
  BY <1>1 DEF LoadOrder
<1>3. ASSUME NEW i \in 1 .. Slots PROVE \E k \in 1 .. Slots : LoadOrder[k] = i
  <2>1. CASE i = A0
    <3>1. Slots \in 1 .. Slots /\ LoadOrder[Slots] = i
      BY <1>1, <2>1 DEF LoadOrder
    <3> QED BY <3>1
  <2>2. CASE i < A0
    <3>1. i \in 1 .. Slots /\ LoadOrder[i] = i
      BY <1>1, <2>2 DEF LoadOrder
    <3> QED BY <3>1
  <2>3. CASE i > A0
    <3>1. i - 1 \in 1 .. Slots /\ LoadOrder[i - 1] = i
      BY <1>1, <2>3 DEF LoadOrder
    <3> QED BY <3>1
  <2> QED BY <1>1, <2>1, <2>2, <2>3
<1> QED BY <1>2, <1>3

(* The registers after k loads, without recursion: the base register is    *)
(* not touched before the last of them.                                    *)
After(k) ==
  [i \in 1 .. Slots |->
     IF \E j \in 1 .. k : LoadOrder[j] = i THEN Registers[i]
     ELSE IF i = A0 THEN Base ELSE -1]

(* One load.                                                               *)
LEMMA LoadsOne ==
  ASSUME IInv, phase = "dumped", NEW k \in 1 .. Slots
  PROVE  LoadRegister(After(k - 1), LoadOrder[k]) = After(k)
<1> DEFINE o == LoadOrder[k]
           a == After(k - 1)
<1>1. Slots \in Nat /\ A0 \in 1 .. Slots /\ o \in 1 .. Slots
  BY RegistersAssumption, OrderIs DEF Slots
<1>2. a[A0] = Base
  <2>1. \A j \in 1 .. k - 1 : LoadOrder[j] # A0
    <3> TAKE j \in 1 .. k - 1
    <3>1. j \in 1 .. Slots /\ j # Slots
      BY <1>1
    <3> QED BY <3>1, OrderIs
  <2> QED BY <1>1, <2>1 DEF After
<1>3. Base + o \in Words64 /\ LoadedWord(Base + o) = Registers[o]
  BY <1>1, SlotHolds
<1>4. LoadRegister(a, o) = [a EXCEPT ![o] = Registers[o]]
  <2> HIDE DEF a, o
  <2> QED BY <1>2, <1>3 DEF LoadRegister
<1>5. ASSUME NEW i \in 1 .. Slots PROVE [a EXCEPT ![o] = Registers[o]][i] = After(k)[i]
  <2>1. CASE i = o
    <3>1. \E j \in 1 .. k : LoadOrder[j] = i
      BY <2>1
    <3>2. After(k)[i] = Registers[i]
      BY <3>1 DEF After
    <3> QED BY <2>1, <3>2 DEF After
  <2>2. CASE i # o
    <3>1. (\E j \in 1 .. k : LoadOrder[j] = i) <=> (\E j \in 1 .. k - 1 : LoadOrder[j] = i)
      BY <1>1, <2>2
    <3>2. [a EXCEPT ![o] = Registers[o]][i] = a[i]
      BY <2>2 DEF After
    <3> QED BY <3>1, <3>2 DEF After
  <2> QED BY <2>1, <2>2
<1>6. [a EXCEPT ![o] = Registers[o]] = After(k)
  BY <1>5 DEF After
<1> QED BY <1>4, <1>6

(* So the recursion has a solution, and that is the only one.              *)
LEMMA RegistersComeBack ==
  ASSUME IInv, phase = "dumped"
  PROVE  RestoredRegisters = Registers
<1> DEFINE first == [i \in 1 .. Slots |-> IF i = A0 THEN Base ELSE -1]
           Step(r) == [k \in 0 .. Slots |->
                         IF k = 0 THEN first ELSE LoadRegister(r[k - 1], LoadOrder[k])]
           all == [k \in 0 .. Slots |-> After(k)]
           T == {k \in 0 .. Slots : RegistersAfter[k] # After(k)}
<1>0. Slots \in Nat /\ Registers \in Seq(Nat) /\ Len(Registers) = Slots
  BY RegistersAssumption DEF Slots
<1>1. After(0) = first
  BY DEF After
<1>2. all = Step(all)
  <2>1. ASSUME NEW k \in 0 .. Slots PROVE all[k] = Step(all)[k]
    <3>1. CASE k = 0
      BY <1>1, <3>1
    <3>2. CASE k # 0
      <4>1. k \in 1 .. Slots /\ k - 1 \in 0 .. Slots
        BY <1>0, <3>2
      <4>2. all[k] = After(k) /\ all[k - 1] = After(k - 1)
        BY <4>1
      <4>3. Step(all)[k] = LoadRegister(all[k - 1], LoadOrder[k])
        BY <3>2
      <4> QED BY <4>1, <4>2, <4>3, LoadsOne
    <3> QED BY <3>1, <3>2
  <2> QED BY <2>1
<1>3. RegistersAfter = Step(RegistersAfter)
  <2> HIDE DEF all
  <2> QED BY <1>2 DEF RegistersAfter
<1>4. T = {}
  <2> SUFFICES ASSUME T # {} PROVE FALSE
    OBVIOUS
  <2>1. T \in SUBSET Nat
    OBVIOUS
  <2>2. PICK k \in T : \A y \in T : k <= y
    <3> HIDE DEF T
    <3> QED BY <2>1, MinIs
  <2>3. k \in 0 .. Slots /\ RegistersAfter[k] = Step(RegistersAfter)[k]
    BY <1>3
  <2>4. CASE k = 0
    BY <1>0, <1>1, <2>3, <2>4
  <2>5. CASE k # 0
    <3>1. k \in 1 .. Slots /\ k - 1 \in 0 .. Slots /\ ~(k <= k - 1)
      BY <1>0, <2>3, <2>5
    <3>2. RegistersAfter[k - 1] = After(k - 1)
      BY <2>2, <3>1
    <3>3. RegistersAfter[k] = LoadRegister(RegistersAfter[k - 1], LoadOrder[k])
      BY <2>3, <2>5
    <3>4. RegistersAfter[k] = After(k)
      BY <3>1, <3>2, <3>3, LoadsOne
    <3> QED BY <3>4
  <2> QED BY <2>4, <2>5
<1>5. RegistersAfter[Slots] = After(Slots)
  <2>1. Slots \in 0 .. Slots
    BY <1>0
  <2> QED BY <1>4, <2>1
<1>6. After(Slots) = [i \in 1 .. Slots |-> Registers[i]]
  BY OrderIs DEF After
<1>7. Registers = [i \in 1 .. Slots |-> Registers[i]]
  BY <1>0
<1> QED BY <1>5, <1>6, <1>7 DEF RestoredRegisters

(* What the JAL encodes is the way from the jump to the program, if that   *)
(* is a number of 21 bits.                                                 *)
LEMMA JumpIs ==
  ASSUME NEW d \in Int, d \in -Reach .. Reach - 1
  PROVE  (d % Address) % (2 * Reach) = IF d >= 0 THEN d ELSE d + 2 * Reach
<1>1. PICK w \in Nat \ {0} : w = 2 * Reach
  BY AddressAssumption
<1>2. Reach \in Nat /\ Address \in Nat \ {0} /\ Address % w = 0
  BY <1>1, AddressAssumption, Sizes
<1>3. PICK k \in Int : Address = w * k
  <2>1. Address \div w \in Int /\ Address = w * (Address \div w) + (Address % w)
    BY <1>2, Division
  <2>2. w * (Address \div w) \in Int
    BY <2>1
  <2> QED BY <1>2, <2>1, <2>2
<1>4. k >= 1
  <2>1. ASSUME k <= 0 PROVE FALSE
    <3>1. w * k <= 0
      BY <2>1
    <3> QED BY <1>2, <1>3, <3>1
  <2> QED BY <2>1
<1>5. Address >= w
  BY <1>3, <1>4, MultipleIsAtLeast
<1>6. CASE d >= 0
  <2>1. d \in 0 .. Address - 1 /\ d = Address * 0 + d /\ d \in 0 .. w - 1 /\ d = w * 0 + d
    BY <1>1, <1>2, <1>5, <1>6
  <2>2. d % Address = d /\ d % w = d
    BY <1>2, <2>1, DivisionIs
  <2> QED BY <1>1, <1>6, <2>2
<1>7. CASE d < 0
  <2>1. d + Address \in 0 .. Address - 1 /\ d = Address * (-1) + (d + Address) /\ d + w \in 0 .. w - 1
    BY <1>1, <1>2, <1>5, <1>7
  <2>2. d % Address = d + Address
    BY <1>2, <2>1, DivisionIs
  <2>3. d + Address \in Int /\ k - 1 \in Int /\ d + Address = w * (k - 1) + (d + w)
    BY <1>2, <1>3
  <2>4. (d + Address) % w = d + w
    <3> DEFINE x == d + Address
               r == d + w
               q == k - 1
    <3>1. x \in Int /\ q \in Int /\ r \in 0 .. w - 1 /\ x = w * q + r
      BY <2>1, <2>3
    <3> HIDE DEF x, q, r
    <3>2. x % w = r
      BY <3>1, DivisionIs
    <3> QED BY <3>2 DEF x, r
  <2> QED BY <1>1, <1>7, <2>2, <2>4
<1> QED BY <1>6, <1>7

(* The jump leads back.                                                    *)
LEMMA JumpLeadsBack ==
  ASSUME IInv, phase = "dumped", pc - JumpPc \in -Reach .. Reach - 1
  PROVE  JumpTarget = pc
<1>1. Slots \in Nat /\ CodeLen \in Nat /\ Reach \in Nat \ {0} /\ pc \in Int
  BY RegistersAssumption, CodeAssumption, AddressAssumption DEF Slots, IInv, TypeOK, Words64
<1>2. RestoreStart \in Nat /\ RestoreSegment.start = RestoreStart /\ RestoreSegment.data = RestoreData
  BY TheFile, CodeFits
<1>3. JumpPc = RestoreStart + Slots + CodeLen
  BY <1>2 DEF JumpPc, Entrypoint
<1>4. PICK d \in Int : d = pc - JumpPc
  BY <1>1, <1>2, <1>3
<1>5. Jal = (d % Address) % (2 * Reach)
  <2>1. /\ Len(RestoreData) = Slots + CodeLen + 1
        /\ RestoreData[Slots + CodeLen + 1] =
             ((pc - (RestoreStart + Slots + CodeLen)) % Address) % (2 * Reach)
    BY CodeFits
  <2> QED BY <1>2, <1>3, <1>4, <2>1 DEF Jal, Last
<1>6. Jal = IF d >= 0 THEN d ELSE d + 2 * Reach
  BY <1>4, <1>5, JumpIs
<1>7. JumpPc \in Int
  BY <1>1, <1>2, <1>3
<1> QED BY <1>1, <1>4, <1>6, <1>7 DEF JumpTarget

(* Running the file gives back every register, although one of them is     *)
(* needed to find the others, and leads back to the program if the jump    *)
(* can reach it: for any registers, any base and any program counter.      *)
THEOREM ExecutionIsRestored == Spec => []RestoresExecution
<1>1. ASSUME IInv PROVE RestoresExecution
  BY <1>1, RegistersComeBack, JumpLeadsBack DEF RestoresExecution
<1> QED BY <1>1, InvHolds, PTL
=============================================================================
