-------------------------- MODULE StringBufferProofs --------------------------
(***************************************************************************)
(* Theorems about StringBuffer, for every number of objects and blocks,    *)
(* all texts and any growth of the capacity by at least one.               *)
(***************************************************************************)
EXTENDS StringBuffer, TLAPS

HeapByte == Chars \union {Nul, Junk}
Heaps == [Blocks -> Seq(HeapByte)]

\* A string's block has room for its capacity.
Room == \A o \in live : m_string[o] \in Blocks => m_capacity[o] <= Len(heap[m_string[o]])

\* Without a fault every string has a block.
HasBlock == faults = {} => \A o \in live : m_string[o] \in Blocks

StrayOne == stray \subseteq {1}

\* What holds while the strings are intact.  Owned says that a step on one string
\* leaves the others' blocks alone; Room, where the bytes of += go; HasBlock, why
\* nothing is done with a pointer to nothing.
StringInv ==
  /\ StringTypeOK /\ Owned /\ Room /\ HasBlock
  /\ StrayOne /\ StopsOnlyAfterFault

\* The inductive invariant.
GuardedInv == StringTypeOK /\ StopsOnlyAfterFault /\ (Intact => StringInv)

-------------------------------------------------------------------------------
(* What the operators on bytes and heaps return. *)

LEMMA NoBlock == Null \notin Blocks /\ Wild \notin Blocks
  BY HeapAssumption DEF Null, Wild

\* While every block has its owner, a string's pointer dangles only if it was never
\* one to a block.
LEMMA OwnedAllocated ==
  ASSUME StringTypeOK, Owned, NEW o \in live
  PROVE  /\ Dangles(heap, m_string[o]) <=> m_string[o] = Wild
         /\ Allocated(heap, m_string[o]) <=> m_string[o] \in Blocks
<1>1. m_string[o] \in Blocks \union {Null, Wild} /\ Wild # Null
  BY DEF StringTypeOK, Null, Wild
<1>2. m_string[o] \in Blocks => heap[m_string[o]] # <<>>
  BY DEF Owned, Free
<1> QED BY <1>1, <1>2, NoBlock DEF Allocated, Dangles

\* strdup fills its block with the text and a terminator.
LEMMA DupFills ==
  ASSUME NEW h \in Heaps, NEW b \in Blocks, NEW text \in Seq(HeapByte)
  PROVE  /\ Dup(h, b, text) \in Heaps
         /\ Dup(h, b, text) = [h EXCEPT ![b] = Append(text, Nul)]
         /\ Append(text, Nul) # <<>>
         /\ Len(Append(text, Nul)) = Len(text) + 1
<1>1. Append(text, Nul) \in Seq(HeapByte) /\ Len(Append(text, Nul)) = Len(text) + 1
  BY DEF HeapByte
<1>2. Append(text, Nul) # <<>>
  <2>1. Len(text) \in Nat /\ Len(<<>>) = 0
    OBVIOUS
  <2> QED BY <1>1, <2>1
<1> QED BY <1>1, <1>2 DEF Dup, Heaps

\* What is copied from a block is made of bytes of the heap.
LEMMA SeenBytes ==
  ASSUME NEW bytes \in Seq(HeapByte), NEW text \in Seen(bytes)
  PROVE  text \in Seq(HeapByte)
<1>1. \A n \in 0..Len(bytes) : SubSeq(bytes, 1, n) \in Seq(HeapByte)
  OBVIOUS
<1>2. Append(bytes, Junk) \in Seq(HeapByte)
  BY DEF HeapByte
<1> QED BY <1>1, <1>2 DEF Seen

\* release() frees the string's block and no other.
LEMMA ReleasedFrees ==
  ASSUME StringTypeOK, NEW o \in Objects
  PROVE  /\ Released(o) \in Heaps
         /\ \A x \in Blocks : Released(o)[x] = IF m_string[o] = x THEN <<>> ELSE heap[x]
  BY DEF Released, StringTypeOK, Heaps, HeapByte

LEMMA ResizedBytes ==
  ASSUME NEW bytes \in Seq(HeapByte), NEW n \in Nat
  PROVE  /\ Resized(bytes, n) \in Seq(HeapByte) /\ Len(Resized(bytes, n)) = n
         /\ \A i \in 1..n : Resized(bytes, n)[i] = IF i <= Len(bytes) THEN bytes[i] ELSE Junk
<1>1. Resized(bytes, n) \in [1..n -> HeapByte]
  BY DEF Resized, HeapByte
<1>2. Resized(bytes, n) \in Seq(HeapByte) /\ Len(Resized(bytes, n)) = n
  BY <1>1
<1> QED BY <1>2 DEF Resized

LEMMA PutBytes ==
  ASSUME NEW bytes \in Seq(HeapByte), NEW len \in Nat, NEW c \in Chars
  PROVE  /\ Put(bytes, len, c) \in Seq(HeapByte) /\ Len(Put(bytes, len, c)) = Len(bytes)
         /\ \A i \in 1..Len(bytes) :
              Put(bytes, len, c)[i] =
                CASE i = len + 1 -> c [] i = len + 2 -> Nul [] OTHER -> bytes[i]
<1>1. Put(bytes, len, c) \in [1..Len(bytes) -> HeapByte]
  BY DEF Put, HeapByte
<1>2. Put(bytes, len, c) \in Seq(HeapByte) /\ Len(Put(bytes, len, c)) = Len(bytes)
  BY <1>1
<1> QED BY <1>2 DEF Put

\* grow() makes room for at least one character more.
LEMMA GrowsEnough ==
  ASSUME NEW cap \in Nat
  PROVE  NewCapacity(cap) \in Nat /\ NewCapacity(cap) >= cap + 1
  BY HeapAssumption DEF NewCapacity

-------------------------------------------------------------------------------
(* Ownership. *)

\* The heap h is heap without the block of o.
Without(o, h) ==
  \A x \in Blocks : h[x] = IF o \in live /\ m_string[o] = x THEN <<>> ELSE heap[x]

\* Two of the ways in which a step changes who owns what: o gives back its block,
\* which leaves h, and gets block b; or it gets none.
GetsBlock(o, h, b, bytes) ==
  /\ Without(o, h) /\ h[b] = <<>> /\ bytes # <<>>
  /\ heap' = [h EXCEPT ![b] = bytes]
  /\ live' = live \union {o} /\ m_string' = [m_string EXCEPT ![o] = b]

GetsNone(o, h) ==
  /\ Without(o, h) /\ heap' = h
  /\ live' = live \union {o} \/ live' = live \ {o}
  /\ m_string' = [m_string EXCEPT ![o] = Null]

\* A block from realloc or strdup is nobody else's.
LEMMA GetsBlockOwner ==
  ASSUME StringTypeOK, Owned, NEW o \in Objects, NEW h \in Heaps, NEW b \in Blocks,
         NEW bytes, GetsBlock(o, h, b, bytes)
  PROVE  Owned'
<1>1. \A x \in Blocks : heap'[x] = IF x = b THEN bytes ELSE h[x]
  BY DEF GetsBlock, Heaps
<1>2. \A p \in Objects : m_string'[p] = IF p = o THEN b ELSE m_string[p]
  BY DEF GetsBlock, StringTypeOK
<1>3. live' = live \union {o} /\ live \subseteq Objects
  BY DEF GetsBlock, StringTypeOK
<1>4. \A p \in live : p # o => m_string[p] # b
  BY DEF GetsBlock, Without, Owned, Free
<1>5. \A x \in Blocks \ Free(heap)' : \E p \in live' : m_string'[p] = x
  <2> SUFFICES ASSUME NEW x \in Blocks, heap'[x] # <<>>
               PROVE  \E p \in live' : m_string'[p] = x
    BY DEF Free
  <2>1. CASE x = b
    BY <1>2, <1>3, <2>1
  <2>2. CASE x # b
    <3>1. heap[x] # <<>> /\ ~(o \in live /\ m_string[o] = x)
      BY <1>1, <2>2 DEF GetsBlock, Without
    <3>2. PICK p \in live : m_string[p] = x
      BY <3>1 DEF Owned, Free
    <3> QED BY <1>2, <1>3, <3>1, <3>2
  <2> QED BY <2>1, <2>2
<1>6. \A p \in live' : m_string'[p] \in Blocks => m_string'[p] \notin Free(heap)'
  <2> SUFFICES ASSUME NEW p \in live', m_string'[p] \in Blocks
               PROVE  heap'[m_string'[p]] # <<>>
    BY DEF Free
  <2>1. CASE p = o
    BY <1>1, <1>2, <2>1 DEF GetsBlock
  <2>2. CASE p # o
    <3>1. p \in live /\ m_string'[p] = m_string[p] /\ m_string[p] # b
      BY <1>2, <1>3, <1>4, <2>2
    <3>2. heap[m_string[p]] # <<>> /\ (o \in live => m_string[o] # m_string[p])
      BY <2>2, <3>1 DEF Owned, Free
    <3> QED BY <1>1, <3>1, <3>2 DEF GetsBlock, Without
  <2> QED BY <2>1, <2>2
<1>7. \A p, q \in live' : p # q /\ m_string'[p] \in Blocks => m_string'[p] # m_string'[q]
  BY <1>2, <1>3, <1>4 DEF Owned
<1> QED BY <1>5, <1>6, <1>7 DEF Owned

\* Nobody is left with a block that was freed, or without its own.
LEMMA GetsNoneOwner ==
  ASSUME StringTypeOK, Owned, NEW o \in Objects, NEW h \in Heaps, GetsNone(o, h)
  PROVE  Owned'
<1>1. \A p \in Objects : m_string'[p] = IF p = o THEN Null ELSE m_string[p]
  BY DEF GetsNone, StringTypeOK
<1>2. (\A p \in live' : p = o \/ p \in live) /\ (\A p \in live : p = o \/ p \in live')
      /\ live \subseteq Objects /\ live' \subseteq Objects /\ heap' = h
  BY DEF GetsNone, StringTypeOK
<1>3. \A x \in Blocks \ Free(heap)' : \E p \in live' : m_string'[p] = x
  <2> SUFFICES ASSUME NEW x \in Blocks, h[x] # <<>>
               PROVE  \E p \in live' : m_string'[p] = x
    BY <1>2 DEF Free
  <2>1. heap[x] # <<>> /\ ~(o \in live /\ m_string[o] = x)
    BY DEF GetsNone, Without
  <2>2. PICK p \in live : m_string[p] = x
    BY <2>1 DEF Owned, Free
  <2> QED BY <1>1, <1>2, <2>1, <2>2
<1>4. \A p \in live' : m_string'[p] \in Blocks => m_string'[p] \notin Free(heap)'
  <2> SUFFICES ASSUME NEW p \in live', m_string'[p] \in Blocks
               PROVE  h[m_string'[p]] # <<>>
    BY <1>2 DEF Free
  <2>1. p \in live /\ p # o /\ m_string'[p] = m_string[p]
    BY <1>1, <1>2, NoBlock
  <2>2. heap[m_string[p]] # <<>> /\ (o \in live => m_string[o] # m_string[p])
    BY <2>1 DEF Owned, Free
  <2> QED BY <2>1, <2>2 DEF GetsNone, Without
<1>5. \A p, q \in live' : p # q /\ m_string'[p] \in Blocks => m_string'[p] # m_string'[q]
  BY <1>1, <1>2, NoBlock DEF Owned
<1> QED BY <1>3, <1>4, <1>5 DEF Owned

-------------------------------------------------------------------------------
(* The steps, by what they do to the string's block. *)

Values == [Objects -> Seq(Chars \union {Junk})]

\* A string that gets a block with room for its capacity.
LEMMA BlockStep ==
  ASSUME StringInv, NEW o \in Objects, NEW h \in Heaps, NEW b \in Blocks,
         NEW bytes \in Seq(HeapByte), NEW len \in Nat, NEW cap \in Nat,
         GetsBlock(o, h, b, bytes), SetMembers(o, b, len, cap),
         len <= cap, cap <= Len(bytes),
         value' \in Values, known' \subseteq live',
         control' = control, faults' = faults, stray' \subseteq stray \union {1}
  PROVE  StringInv'
<1> USE DEF StringInv
<1>1. /\ live' = live \union {o} /\ live \subseteq Objects
      /\ \A p \in live' : p = o \/ p \in live
  BY DEF GetsBlock, StringTypeOK
<1>2. \A p \in Objects : /\ m_string'[p] = IF p = o THEN b ELSE m_string[p]
                         /\ m_length'[p] = IF p = o THEN len ELSE m_length[p]
                         /\ m_capacity'[p] = IF p = o THEN cap ELSE m_capacity[p]
  BY DEF SetMembers, StringTypeOK
<1>3. /\ m_string' \in [Objects -> Blocks \union {Null, Wild}]
      /\ m_length' \in [Objects -> Nat] /\ m_capacity' \in [Objects -> Nat]
  BY DEF SetMembers, StringTypeOK
<1>4. heap' \in Heaps /\ \A x \in Blocks : heap'[x] = IF x = b THEN bytes ELSE h[x]
  BY DEF GetsBlock, Heaps
<1>5. Owned'
  BY GetsBlockOwner
<1>6. \A p \in live' : m_length'[p] <= m_capacity'[p]
  BY <1>1, <1>2 DEF StringTypeOK
<1>7. StringTypeOK'
  <2>1. live' \subseteq Objects /\ heap' \in [Blocks -> Seq(Chars \union {Nul, Junk})]
        /\ value' \in [Objects -> Seq(Chars \union {Junk})]
    BY <1>1, <1>4 DEF Heaps, HeapByte, Values
  <2>2. /\ stray' \subseteq Nat /\ faults' \subseteq {"memory", "moved", "garbage"}
        /\ control' \in {"running", "aborted", "crashed"}
    BY DEF StringTypeOK
  <2> QED BY <1>3, <1>6, <2>1, <2>2 DEF StringTypeOK
<1>8. Room'
  <2> SUFFICES ASSUME NEW p \in live', m_string'[p] \in Blocks
               PROVE  m_capacity'[p] <= Len(heap'[m_string'[p]])
    BY DEF Room
  <2>1. CASE p = o
    BY <1>2, <1>4, <2>1
  <2>2. CASE p # o
    <3>1. p \in live /\ p \in Objects /\ m_string'[p] = m_string[p] /\ m_string[p] # b
      BY <1>1, <1>2, <1>5, <2>2 DEF Owned
    <3>2. heap'[m_string[p]] = heap[m_string[p]]
      BY <1>4, <2>2, <3>1 DEF GetsBlock, Without, Owned
    <3> QED BY <1>2, <2>2, <3>1, <3>2 DEF Room
  <2> QED BY <2>1, <2>2
<1>9. HasBlock'
  BY <1>1, <1>2 DEF HasBlock
<1>10. StrayOne' /\ StopsOnlyAfterFault'
  BY DEF StrayOne, StopsOnlyAfterFault
<1> QED BY <1>5, <1>7, <1>8, <1>9, <1>10

\* A string that is left without a block, because it is destroyed or because
\* there is no memory.
LEMMA NoBlockStep ==
  ASSUME StringInv, NEW o \in Objects, NEW h \in Heaps, NEW len \in Nat, NEW cap \in Nat,
         GetsNone(o, h), SetMembers(o, Null, len, cap), len <= cap,
         value' \in Values, known' \subseteq live',
         control' = control, stray' = stray, faults' = faults \/ faults' = faults \union {"memory"},
         faults' # {} \/ o \notin live'
  PROVE  StringInv'
<1> USE DEF StringInv
<1>1. /\ live \subseteq Objects /\ live' \subseteq Objects
      /\ \A p \in live' : p = o \/ p \in live
  BY DEF GetsNone, StringTypeOK
<1>2. \A p \in Objects : /\ m_string'[p] = IF p = o THEN Null ELSE m_string[p]
                         /\ m_length'[p] = IF p = o THEN len ELSE m_length[p]
                         /\ m_capacity'[p] = IF p = o THEN cap ELSE m_capacity[p]
  BY DEF SetMembers, StringTypeOK
<1>3. /\ m_string' \in [Objects -> Blocks \union {Null, Wild}]
      /\ m_length' \in [Objects -> Nat] /\ m_capacity' \in [Objects -> Nat]
  BY DEF SetMembers, StringTypeOK
<1>4. heap' = h
  BY DEF GetsNone
<1>5. Owned'
  BY GetsNoneOwner
<1>6. \A p \in live' : m_length'[p] <= m_capacity'[p]
  BY <1>1, <1>2 DEF StringTypeOK
<1>7. StringTypeOK'
  BY <1>1, <1>3, <1>4, <1>6 DEF StringTypeOK, Heaps, HeapByte, Values
<1>8. Room'
  <2> SUFFICES ASSUME NEW p \in live', m_string'[p] \in Blocks
               PROVE  m_capacity'[p] <= Len(heap'[m_string'[p]])
    BY DEF Room
  <2>1. p \in live /\ p # o /\ p \in Objects /\ m_string'[p] = m_string[p]
    BY <1>1, <1>2, NoBlock
  <2>2. heap'[m_string[p]] = heap[m_string[p]]
    BY <1>4, <2>1 DEF GetsNone, Without, Owned
  <2> QED BY <1>2, <2>1, <2>2 DEF Room
<1>9. HasBlock'
  BY <1>1, <1>2 DEF HasBlock
<1>10. StrayOne' /\ StopsOnlyAfterFault'
  BY DEF StrayOne, StopsOnlyAfterFault
<1> QED BY <1>5, <1>7, <1>8, <1>9, <1>10

\* A program that ends after a fault.
LEMMA EndStep ==
  ASSUME StringInv, control' \in {"aborted", "crashed"},
         UNCHANGED <<live, members, heap, promises, stray>>,
         faults' \in {faults, faults \union {"memory"}, faults \union {"moved"}}, faults' # {}
  PROVE  StringInv'
<1>1. HasBlock' /\ StopsOnlyAfterFault'
  BY DEF HasBlock, StopsOnlyAfterFault
<1> QED BY <1>1 DEF StringInv, StringTypeOK, Owned, Free, Room, StrayOne,
                    members, promises

-------------------------------------------------------------------------------
(* The operations. *)

\* The texts that strings have to hold stay texts.
LEMMA PromiseType ==
  ASSUME StringTypeOK, NEW o \in Objects, NEW text \in Seq(Chars \union {Junk}),
         Promise(o, text) \/ NoPromise(o)
  PROVE  value' \in Values /\ known' \subseteq live \union {o}
<1>1. <<>> \in Seq(Chars \union {Junk})
  OBVIOUS
<1> QED BY <1>1 DEF Promise, NoPromise, StringTypeOK, Values

LEMMA ConstructStep ==
  ASSUME StringInv, control = "running", NEW o \in Objects, NEW text \in Texts, Construct(o, text)
  PROVE  StringInv'
<1>1. text \in Seq(HeapByte) /\ text \in Seq(Chars \union {Junk}) /\ Len(text) \in Nat
  BY TextAssumption DEF HeapByte
<1>2. heap \in Heaps /\ Without(o, heap) /\ live' = live \union {o}
  BY DEF Construct, Without, StringInv, StringTypeOK, Heaps, HeapByte
<1>3. value' \in Values /\ known' \subseteq live'
  BY <1>1, <1>2, PromiseType DEF Construct, StringInv
<1>4. ASSUME NEW b \in Free(heap),
             heap' = Dup(heap, b, text), SetMembers(o, b, Len(text), Len(text)), UNCHANGED faults
      PROVE  StringInv'
  <2> DEFINE bytes == Append(text, Nul)
  <2>1. bytes \in Seq(HeapByte) /\ bytes # <<>> /\ Len(bytes) = Len(text) + 1
        /\ heap' = [heap EXCEPT ![b] = bytes]
    BY <1>1, <1>2, <1>4, DupFills DEF Free, HeapByte
  <2>2. GetsBlock(o, heap, b, bytes)
    BY <1>2, <1>4, <2>1 DEF GetsBlock, SetMembers, Free
  <2> HIDE DEF bytes
  <2> QED BY <1>1, <1>2, <1>3, <1>4, <2>1, <2>2, BlockStep DEF Construct, Free
<1>5. ASSUME SetMembers(o, Null, Len(text), Len(text)), faults' = faults \union {"memory"},
             UNCHANGED heap
      PROVE  StringInv'
  <2>1. GetsNone(o, heap)
    BY <1>2, <1>5 DEF GetsNone, SetMembers
  <2> QED BY <1>1, <1>2, <1>3, <1>5, <2>1, NoBlockStep DEF Construct
<1> QED BY <1>4, <1>5 DEF Construct

\* The block that a copy is made from survives the release of the string's own.
LEMMA SourceStays ==
  ASSUME StringTypeOK, Owned, NEW o \in Objects, NEW p \in live, o # p, NEW h \in Heaps,
         Without(o, h)
  PROVE  /\ Allocated(h, m_string[p]) <=> m_string[p] \in Blocks
         /\ m_string[p] \in Blocks => h[m_string[p]] = heap[m_string[p]]
<1>1. m_string[p] \in Blocks => h[m_string[p]] = heap[m_string[p]]
  BY DEF Without, Owned
<1> QED BY <1>1, OwnedAllocated DEF Allocated

\* A copy gets a block of its own, whatever the block it is copied from holds.
LEMMA CopyFromStep ==
  ASSUME StringInv, control = "running", NEW o \in Objects, NEW p \in live, o # p, NEW h \in Heaps,
         NEW len \in Nat, NEW cap \in Nat, len <= cap, Without(o, h), CopyFrom(o, p, h, len, cap)
  PROVE  StringInv'
<1> USE DEF StringInv
<1>0. /\ Allocated(h, m_string[p]) <=> m_string[p] \in Blocks
      /\ m_string[p] \in Blocks => h[m_string[p]] = heap[m_string[p]]
  BY SourceStays
<1>1. CASE m_string[p] \notin Blocks
  <2>1. faults # {}
    BY <1>1 DEF HasBlock
  <2> QED BY <1>0, <1>1, <2>1, EndStep DEF CopyFrom, Stop
<1> SUFFICES ASSUME m_string[p] \in Blocks
             PROVE  StringInv'
  BY <1>1
<1>2. live' = live \union {o} /\ UNCHANGED <<control, stray>>
  BY <1>0 DEF CopyFrom
<1>3. ASSUME NEW b \in Free(h), NEW text \in Seen(heap[m_string[p]]),
             heap' = Dup(h, b, text), SetMembers(o, b, Len(text), Len(text)),
             IF p \in known /\ text = value[p] THEN Promise(o, text) ELSE NoPromise(o),
             UNCHANGED faults
      PROVE  StringInv'
  <2> DEFINE bytes == Append(text, Nul)
  <2>1. text \in Seq(HeapByte) /\ Len(text) \in Nat
    <3>1. heap[m_string[p]] \in Seq(HeapByte)
      BY DEF StringTypeOK, HeapByte
    <3>2. text \in Seq(HeapByte)
      BY <3>1, SeenBytes
    <3> QED BY <3>2
  <2>2. bytes \in Seq(HeapByte) /\ bytes # <<>> /\ Len(bytes) = Len(text) + 1
        /\ heap' = [h EXCEPT ![b] = bytes]
    BY <1>3, <2>1, DupFills DEF Free, HeapByte
  <2>3. value' \in Values /\ known' \subseteq live'
    <3>1. value[p] \in Seq(Chars \union {Junk})
      BY DEF StringTypeOK
    <3> QED BY <1>2, <1>3, <3>1, PromiseType
  <2>4. GetsBlock(o, h, b, bytes)
    BY <1>2, <1>3, <2>2 DEF GetsBlock, SetMembers, Free
  <2> HIDE DEF bytes
  <2> QED BY <1>2, <1>3, <2>1, <2>2, <2>3, <2>4, BlockStep DEF Free
<1>4. ASSUME heap' = h, SetMembers(o, Null, len, cap), faults' = faults \union {"memory"},
             NoPromise(o)
      PROVE  StringInv'
  <2>1. GetsNone(o, h)
    BY <1>2, <1>4 DEF GetsNone, SetMembers
  <2>2. value' \in Values /\ known' \subseteq live'
    <3>1. <<>> \in Seq(Chars \union {Junk})
      OBVIOUS
    <3> QED BY <1>2, <1>4, <3>1, PromiseType
  <2> QED BY <1>2, <1>4, <2>1, <2>2, NoBlockStep
<1> QED BY <1>0, <1>3, <1>4 DEF CopyFrom

LEMMA CopyConstructStep ==
  ASSUME StringInv, control = "running", NEW o \in Objects, NEW p \in Objects, CopyConstruct(o, p)
  PROVE  StringInv'
<1>1. heap \in Heaps /\ Without(o, heap)
  BY DEF CopyConstruct, Without, StringInv, StringTypeOK, Heaps, HeapByte
<1> QED BY <1>1, CopyFromStep DEF CopyConstruct

LEMMA CopyAssignStep ==
  ASSUME StringInv, control = "running", NEW o \in Objects, NEW p \in Objects, CopyAssign(o, p)
  PROVE  StringInv'
<1> USE DEF StringInv
<1>1. o \in live /\ p \in live /\ o # p /\ m_length[o] <= m_capacity[o] /\ m_length[o] \in Nat
      /\ m_capacity[o] \in Nat /\ m_string[o] \in Blocks \union {Null, Wild}
      /\ (Dangles(heap, m_string[o]) <=> m_string[o] = Wild)
  BY OwnedAllocated DEF CopyAssign, StringTypeOK
<1>2. CASE m_string[o] = Wild
  <2>1. Stop("crashed") /\ faults # {}
    BY <1>1, <1>2, NoBlock DEF CopyAssign, Method, HasBlock
  <2> QED BY <2>1, EndStep DEF Stop
<1>3. CASE m_string[o] = Null
  <2>1. CopyFrom(o, p, heap, m_length[o], m_capacity[o])
    BY <1>1, <1>3 DEF CopyAssign, Method, Null, Wild
  <2>2. heap \in Heaps /\ Without(o, heap)
    BY <1>3, NoBlock DEF Without, StringTypeOK, Heaps, HeapByte
  <2> QED BY <1>1, <2>1, <2>2, CopyFromStep
<1>4. CASE m_string[o] \in Blocks
  <2>1. CopyFrom(o, p, Released(o), 0, 0)
    BY <1>1, <1>4, NoBlock DEF CopyAssign, Method
  <2>2. Released(o) \in Heaps /\ Without(o, Released(o))
    BY <1>1, ReleasedFrees DEF Without
  <2> QED BY <1>1, <2>1, <2>2, CopyFromStep
<1> QED BY <1>1, <1>2, <1>3, <1>4

LEMMA DestroyStep ==
  ASSUME StringInv, control = "running", NEW o \in Objects, Destroy(o)
  PROVE  StringInv'
<1> USE DEF StringInv
<1>1. o \in live /\ m_length[o] <= m_capacity[o]
      /\ (Dangles(heap, m_string[o]) <=> m_string[o] = Wild)
  BY OwnedAllocated DEF Destroy, StringTypeOK
<1>2. CASE m_string[o] = Wild
  <2>1. Stop("crashed") /\ faults # {}
    BY <1>1, <1>2, NoBlock DEF Destroy, Method, HasBlock
  <2> QED BY <2>1, EndStep DEF Stop
<1>3. CASE m_string[o] # Wild
  <2>1. /\ heap' = Released(o) /\ SetMembers(o, Null, 0, 0)
        /\ live' = live \ {o} /\ NoPromise(o) /\ UNCHANGED <<control, stray, faults>>
    BY <1>1, <1>3 DEF Destroy, Method
  <2>2. Released(o) \in Heaps /\ Without(o, Released(o))
    BY <1>1, ReleasedFrees DEF Without
  <2>3. GetsNone(o, Released(o))
    BY <2>1, <2>2 DEF GetsNone, SetMembers
  <2>4. <<>> \in Seq(Chars \union {Junk})
    OBVIOUS
  <2>5. value' \in Values
    BY <2>1, <2>4, PromiseType
  <2>6. known' \subseteq live' /\ o \notin live'
    BY <2>1 DEF NoPromise, StringTypeOK
  <2> QED BY <2>1, <2>2, <2>3, <2>5, <2>6, NoBlockStep
<1> QED BY <1>2, <1>3

\* A move by assignment swaps two strings that are in order.
LEMMA MoveAssignStep ==
  ASSUME StringInv, control = "running", NEW o \in Objects, NEW p \in Objects, MoveAssign(o, p)
  PROVE  StringInv'
<1> USE DEF StringInv
<1>1. o \in live /\ p \in live /\ o # p /\ m_length[o] <= m_capacity[o]
  BY DEF MoveAssign, StringTypeOK
<1>2. /\ m_string' = Swapped(m_string, o, p) /\ m_length' = Swapped(m_length, o, p)
      /\ m_capacity' = Swapped(m_capacity, o, p)
      /\ value' = Swapped(value, o, p)
      /\ known' \subseteq live /\ UNCHANGED <<live, heap, control, stray, faults>>
  BY <1>1 DEF MoveAssign, Method, Swapped
<1> DEFINE Other(q) == CASE q = o -> p [] q = p -> o [] OTHER -> q
<1>3. \A q \in Objects : /\ m_string'[q] = m_string[Other(q)] /\ m_length'[q] = m_length[Other(q)]
                         /\ m_capacity'[q] = m_capacity[Other(q)]
  BY <1>1, <1>2 DEF Swapped, StringTypeOK
<1>4. /\ \A q \in live : Other(q) \in live
      /\ \A q, r \in live : q # r => Other(q) # Other(r)
      /\ \A q \in live : Other(Other(q)) = q
      /\ live \subseteq Objects
  BY <1>1 DEF StringTypeOK
<1>5. StringTypeOK'
  <2>1. /\ m_string' \in [Objects -> Blocks \union {Null, Wild}]
        /\ m_length' \in [Objects -> Nat] /\ m_capacity' \in [Objects -> Nat]
        /\ value' \in [Objects -> Seq(Chars \union {Junk})]
    BY <1>2 DEF Swapped, StringTypeOK
  <2> HIDE DEF Other
  <2> QED BY <1>2, <1>3, <1>4, <2>1 DEF StringTypeOK
<1> HIDE DEF Other
<1>6. Owned'
  <2>1. \A x \in Blocks \ Free(heap)' : \E q \in live' : m_string'[q] = x
    BY <1>2, <1>3, <1>4 DEF Owned, Free
  <2>2. \A q \in live' : m_string'[q] \in Blocks => m_string'[q] \notin Free(heap)'
    BY <1>2, <1>3, <1>4 DEF Owned, Free
  <2>3. \A q, r \in live' : q # r /\ m_string'[q] \in Blocks => m_string'[q] # m_string'[r]
    BY <1>2, <1>3, <1>4 DEF Owned
  <2> QED BY <2>1, <2>2, <2>3 DEF Owned
<1>7. Room' /\ HasBlock'
  BY <1>2, <1>3, <1>4 DEF Room, HasBlock
<1> QED BY <1>2, <1>5, <1>6, <1>7 DEF StrayOne, StopsOnlyAfterFault

\* A construction by a move leaves the source with what the new object's storage
\* held, and a fault to remember it by.
LEMMA MoveConstructStep ==
  ASSUME StringInv, control = "running", NEW o \in Objects, NEW p \in Objects, MoveConstruct(o, p),
         Intact'
  PROVE  StringInv'
<1> USE DEF StringInv
<1>1. o \notin live /\ p \in live /\ live \subseteq Objects
  BY DEF MoveConstruct, StringTypeOK
<1>2. PICK g \in Garbage :
        IF g.m_length > g.m_capacity
          THEN /\ control' = "aborted" /\ faults' = faults \union {"moved"}
               /\ UNCHANGED <<live, members, heap, promises, stray>>
          ELSE /\ m_string' = [m_string EXCEPT ![o] = m_string[p], ![p] = g.m_string]
               /\ m_length' = [m_length EXCEPT ![o] = m_length[p], ![p] = g.m_length]
               /\ m_capacity' = [m_capacity EXCEPT ![o] = m_capacity[p], ![p] = g.m_capacity]
               /\ value' = [value EXCEPT ![o] = value[p], ![p] = <<>>]
               /\ known' = (known \ {p}) \union (IF p \in known THEN {o} ELSE {})
               /\ live' = live \union {o}
               /\ faults' = faults \union {"moved"}
                             \union (IF g.m_string \in Blocks THEN {"garbage"} ELSE {})
               /\ UNCHANGED <<heap, control, stray>>
  BY DEF MoveConstruct
<1>3. CASE g.m_length > g.m_capacity
  BY <1>2, <1>3, EndStep
<1>4. CASE ~(g.m_length > g.m_capacity)
  <2>0. g.m_string \notin Blocks
    BY <1>2, <1>4 DEF Intact
  <2>1. g.m_string \in {Null, Wild} /\ g.m_length \in Nat /\ g.m_capacity \in Nat
        /\ g.m_length <= g.m_capacity
    BY <1>4, <2>0, GarbageAssumption
  <2>2. /\ m_string' = [m_string EXCEPT ![o] = m_string[p], ![p] = g.m_string]
        /\ m_length' = [m_length EXCEPT ![o] = m_length[p], ![p] = g.m_length]
        /\ m_capacity' = [m_capacity EXCEPT ![o] = m_capacity[p], ![p] = g.m_capacity]
        /\ value' = [value EXCEPT ![o] = value[p], ![p] = <<>>]
        /\ known' = (known \ {p}) \union (IF p \in known THEN {o} ELSE {})
        /\ live' = live \union {o} /\ faults' = faults \union {"moved"}
        /\ UNCHANGED <<heap, control, stray>>
    BY <1>2, <1>4, <2>0
  <2>3. \A q \in Objects :
          /\ q = o => m_string'[q] = m_string[p] /\ m_length'[q] = m_length[p]
                      /\ m_capacity'[q] = m_capacity[p]
          /\ q = p => m_string'[q] = g.m_string /\ m_length'[q] = g.m_length
                      /\ m_capacity'[q] = g.m_capacity
          /\ q # o /\ q # p => m_string'[q] = m_string[q] /\ m_length'[q] = m_length[q]
                               /\ m_capacity'[q] = m_capacity[q]
    BY <1>1, <2>2 DEF StringTypeOK
  <2>4. StringTypeOK'
    <3>1. <<>> \in Seq(Chars \union {Junk})
      OBVIOUS
    <3>2. /\ m_string' \in [Objects -> Blocks \union {Null, Wild}]
          /\ m_length' \in [Objects -> Nat] /\ m_capacity' \in [Objects -> Nat]
          /\ value' \in [Objects -> Seq(Chars \union {Junk})]
      BY <2>1, <2>2, <3>1 DEF StringTypeOK
    <3>3. \A q \in live' : m_length'[q] <= m_capacity'[q]
      BY <1>1, <2>1, <2>2, <2>3 DEF StringTypeOK
    <3>4. live' \subseteq Objects /\ known' \subseteq live' /\ faults' \subseteq {"memory", "moved", "garbage"}
      BY <1>1, <2>2 DEF StringTypeOK
    <3> QED BY <2>2, <3>2, <3>3, <3>4 DEF StringTypeOK
  <2> DEFINE Source(q) == IF q = o THEN p ELSE q
  <2>5. \A q \in live' : \/ q = p /\ m_string'[q] \notin Blocks
                         \/ /\ q # p /\ Source(q) \in live
                            /\ m_string'[q] = m_string[Source(q)]
                            /\ m_capacity'[q] = m_capacity[Source(q)]
    <3>1. g.m_string \notin Blocks
      BY <2>1, NoBlock
    <3>2. \A q \in live' : q \in Objects /\ (q = o \/ q \in live)
      BY <1>1, <2>2
    <3> QED BY <1>1, <2>3, <3>1, <3>2
  <2>6. \A q, r \in live' : q # r /\ q # p /\ r # p => Source(q) # Source(r)
    OBVIOUS
  <2>7. \A q \in live : \E r \in live' : r # p /\ Source(r) = q
    <3> SUFFICES ASSUME NEW q \in live
                 PROVE  \E r \in live' : r # p /\ Source(r) = q
      OBVIOUS
    <3>1. live' = live \union {o} /\ o # p /\ q # o
      BY <1>1, <2>2
    <3>2. CASE q = p
      BY <3>1, <3>2
    <3>3. CASE q # p
      BY <3>1, <3>3
    <3> QED BY <3>2, <3>3
  <2> HIDE DEF Source
  <2>8. Owned'
    <3>1. \A x \in Blocks \ Free(heap)' : \E q \in live' : m_string'[q] = x
      <4> SUFFICES ASSUME NEW x \in Blocks, heap[x] # <<>>
                   PROVE  \E q \in live' : m_string'[q] = x
        BY <2>2 DEF Free
      <4>1. PICK q \in live : m_string[q] = x
        BY DEF Owned, Free
      <4> QED BY <2>5, <2>7, <4>1
    <3>2. \A q \in live' : m_string'[q] \in Blocks => m_string'[q] \notin Free(heap)'
      BY <2>2, <2>5 DEF Owned, Free
    <3>3. \A q, r \in live' : q # r /\ m_string'[q] \in Blocks => m_string'[q] # m_string'[r]
      BY <2>5, <2>6 DEF Owned
    <3> QED BY <3>1, <3>2, <3>3 DEF Owned
  <2>9. Room'
    BY <2>2, <2>5 DEF Room
  <2> QED BY <2>2, <2>4, <2>8, <2>9 DEF HasBlock, StrayOne, StopsOnlyAfterFault
<1> QED BY <1>3, <1>4

\* Where += writes: the character inside the block, its terminator inside or
\* directly behind it.
LEMMA BehindByOne ==
  ASSUME NEW bytes \in Seq(HeapByte), NEW len \in Nat, len < Len(bytes)
  PROVE  Behind(bytes, len) \subseteq {1}
<1>1. Len(bytes) \in Nat
  OBVIOUS
<1>2. ASSUME NEW i \in {len + 1, len + 2}, i > Len(bytes) PROVE i - Len(bytes) = 1
  BY <1>1, <1>2
<1> QED BY <1>2 DEF Behind

LEMMA PutCharStep ==
  ASSUME StringInv, NEW o \in live, NEW c \in Chars, NEW h \in Heaps, NEW b \in Blocks,
         NEW bytes \in Seq(HeapByte), NEW cap \in Nat,
         Without(o, h), h[b] = <<>>, m_length[o] < cap, cap <= Len(bytes),
         heap' = [h EXCEPT ![b] = Put(bytes, m_length[o], c)],
         stray' = stray \union Behind(bytes, m_length[o]),
         SetMembers(o, b, m_length[o] + 1, cap),
         value' = [value EXCEPT ![o] = IF o \in known THEN Append(@, c) ELSE @],
         UNCHANGED <<live, control, known, faults>>
  PROVE  StringInv'
<1> DEFINE put == Put(bytes, m_length[o], c)
<1>1. o \in Objects /\ m_length[o] \in Nat /\ Len(bytes) \in Nat
  BY DEF StringInv, StringTypeOK
<1>2. put \in Seq(HeapByte) /\ Len(put) = Len(bytes)
  BY <1>1, PutBytes
<1>3. put # <<>>
  <2>1. Len(<<>>) = 0
    OBVIOUS
  <2> QED BY <1>1, <1>2, <2>1
<1>4. stray' \subseteq stray \union {1}
  BY <1>1, BehindByOne
<1>5. value' \in Values /\ known' \subseteq live'
  <2>1. value[o] \in Seq(Chars \union {Junk}) /\ Append(value[o], c) \in Seq(Chars \union {Junk})
    BY <1>1 DEF StringInv, StringTypeOK
  <2> QED BY <2>1 DEF StringInv, StringTypeOK, Values
<1>6. GetsBlock(o, h, b, put)
  BY <1>3 DEF GetsBlock, SetMembers
<1> DEFINE len == m_length[o] + 1
<1>7. len \in Nat /\ len <= cap /\ cap <= Len(put) /\ SetMembers(o, b, len, cap)
      /\ control' = control /\ faults' = faults
  BY <1>1, <1>2
<1> HIDE DEF put, len
<1> QED BY <1>1, <1>2, <1>4, <1>5, <1>6, <1>7, BlockStep

LEMMA PlusCharStep ==
  ASSUME StringInv, control = "running", NEW o \in Objects, NEW c \in Chars, PlusChar(o, c)
  PROVE  StringInv'
<1> USE DEF StringInv
<1>1. o \in live /\ m_length[o] <= m_capacity[o] /\ m_length[o] \in Nat
      /\ m_capacity[o] \in Nat /\ m_string[o] \in Blocks \union {Null, Wild}
      /\ (Dangles(heap, m_string[o]) <=> m_string[o] = Wild)
  BY OwnedAllocated DEF PlusChar, StringTypeOK
<1>2. Released(o) \in Heaps /\ Without(o, Released(o))
  BY <1>1, ReleasedFrees DEF Without
<1>3. CASE m_string[o] = Wild
  <2>1. Stop("crashed") /\ faults # {}
    BY <1>1, <1>3, NoBlock DEF PlusChar, Method, HasBlock
  <2> QED BY <2>1, EndStep DEF Stop
<1>4. CASE m_string[o] # Wild /\ MustGrow(m_length[o], m_capacity[o])
  <2> DEFINE old == IF m_string[o] = Null THEN <<>> ELSE heap[m_string[o]]
             cap == NewCapacity(m_capacity[o])
  <2>1. \/ \E b \in Free(Released(o)) :
             PutChar(o, c, Released(o), b, Resized(old, cap), cap)
        \/ /\ control' = "aborted" /\ faults' = faults \union {"memory"}
           /\ UNCHANGED <<live, members, heap, promises, stray>>
    BY <1>1, <1>4 DEF PlusChar, Method
  <2>2. cap \in Nat /\ m_length[o] < cap
    BY <1>1, GrowsEnough
  <2>3. old \in Seq(HeapByte)
    <3>1. <<>> \in Seq(HeapByte)
      OBVIOUS
    <3>2. m_string[o] # Null => heap[m_string[o]] \in Seq(HeapByte)
      BY <1>1, <1>4 DEF StringTypeOK, HeapByte
    <3> QED BY <3>1, <3>2
  <2> HIDE DEF old, cap
  <2>4. Resized(old, cap) \in Seq(HeapByte) /\ Len(Resized(old, cap)) = cap
    BY <2>2, <2>3, ResizedBytes
  <2>5. ASSUME NEW b \in Free(Released(o)),
               PutChar(o, c, Released(o), b, Resized(old, cap), cap)
        PROVE  StringInv'
    <3> DEFINE bytes == Resized(old, cap)
    <3>1. b \in Blocks /\ Released(o)[b] = <<>>
      BY DEF Free
    <3>2. cap <= Len(bytes)
      BY <2>2, <2>4
    <3> HIDE DEF bytes
    <3>3. PutChar(o, c, Released(o), b, bytes, cap) /\ bytes \in Seq(HeapByte)
      BY <2>4, <2>5 DEF bytes
    <3> QED BY <1>1, <1>2, <2>2, <3>1, <3>2, <3>3, PutCharStep DEF PutChar
  <2> QED BY <2>1, <2>5, EndStep
<1>5. CASE m_string[o] = Null /\ ~MustGrow(m_length[o], m_capacity[o])
  <2>1. Stop("crashed") /\ faults # {}
    BY <1>1, <1>5, NoBlock DEF PlusChar, Method, HasBlock, Null, Wild
  <2> QED BY <2>1, EndStep DEF Stop
<1>6. CASE m_string[o] \in Blocks /\ ~MustGrow(m_length[o], m_capacity[o])
  <2> DEFINE b == m_string[o]
             bytes == heap[b]
  <2>1. PutChar(o, c, heap, b, bytes, m_capacity[o])
    BY <1>1, <1>6, NoBlock DEF PlusChar, Method
  <2>2. bytes \in Seq(HeapByte) /\ m_length[o] < m_capacity[o] /\ m_capacity[o] <= Len(bytes)
    BY <1>1, <1>6 DEF MustGrow, StringTypeOK, HeapByte, Room
  <2>3. Released(o)[b] = <<>>
    BY <1>1, <1>2, <1>6 DEF Without
  <2>4. heap' = [Released(o) EXCEPT ![b] = Put(bytes, m_length[o], c)]
    BY <1>6, <2>1 DEF PutChar, Released, StringTypeOK
  <2> HIDE DEF bytes
  <2> QED BY <1>1, <1>2, <1>6, <2>1, <2>2, <2>3, <2>4, PutCharStep DEF PutChar
<1> QED BY <1>1, <1>3, <1>4, <1>5, <1>6

\* StringInv is kept by every step that leaves the strings intact.
LEMMA StringInvStep == StringInv /\ [StringNext]_stringVars /\ Intact' => StringInv'
<1> SUFFICES ASSUME StringInv, [StringNext]_stringVars, Intact'
             PROVE  StringInv'
  OBVIOUS
<1>1. CASE UNCHANGED stringVars
  BY <1>1 DEF stringVars, members, promises, StringInv, StringTypeOK, Owned, Free, Room,
              HasBlock, StrayOne, StopsOnlyAfterFault
<1>2. CASE StringNext
  <2>1. control = "running"
    BY <1>2 DEF StringNext
  <2> QED BY <1>2, <2>1, ConstructStep, CopyConstructStep, MoveConstructStep, CopyAssignStep,
             MoveAssignStep, PlusCharStep, DestroyStep DEF StringNext
<1> QED BY <1>1, <1>2

-------------------------------------------------------------------------------
(* Types, which do not rest on ownership. *)

\* A step that gives one string other members, and one block other bytes.
LEMMA MembersType ==
  ASSUME StringTypeOK, NEW o \in Objects, NEW ptr \in Blocks \union {Null, Wild},
         NEW len \in Nat, NEW cap \in Nat, len <= cap, SetMembers(o, ptr, len, cap),
         live' = live \union {o} \/ live' = live \ {o}, known' \subseteq live',
         value' \in Values, heap' \in Heaps, control' = control,
         stray' = stray \/ stray' \subseteq Nat,
         faults' = faults \/ faults' = faults \union {"memory"}
  PROVE  StringTypeOK'
<1>1. /\ m_string' \in [Objects -> Blocks \union {Null, Wild}]
      /\ m_length' \in [Objects -> Nat] /\ m_capacity' \in [Objects -> Nat]
  BY DEF SetMembers, StringTypeOK
<1>2. \A p \in live' : m_length'[p] <= m_capacity'[p]
  BY DEF SetMembers, StringTypeOK
<1>3. live' \subseteq Objects /\ stray' \subseteq Nat /\ faults' \subseteq {"memory", "moved", "garbage"}
      /\ control' \in {"running", "aborted", "crashed"}
  BY DEF StringTypeOK
<1> QED BY <1>1, <1>2, <1>3 DEF StringTypeOK, Values, Heaps, HeapByte

LEMMA StopType ==
  ASSUME StringTypeOK, control' \in {"aborted", "crashed"},
         UNCHANGED <<live, members, heap, promises, stray>>,
         faults' \in {faults, faults \union {"memory"}, faults \union {"moved"}}
  PROVE  StringTypeOK'
  BY DEF StringTypeOK, members, promises

LEMMA ConstructType ==
  ASSUME StringTypeOK, NEW o \in Objects, NEW text \in Texts, Construct(o, text)
  PROVE  StringTypeOK'
<1>1. text \in Seq(HeapByte) /\ text \in Seq(Chars \union {Junk}) /\ Len(text) \in Nat
  BY TextAssumption DEF HeapByte
<1>2. heap \in Heaps /\ live' = live \union {o}
  BY DEF Construct, StringTypeOK, Heaps, HeapByte
<1>3. value' \in Values /\ known' \subseteq live'
  BY <1>1, <1>2, PromiseType DEF Construct
<1>4. ASSUME NEW b \in Free(heap), heap' = Dup(heap, b, text),
             SetMembers(o, b, Len(text), Len(text)), UNCHANGED faults
      PROVE  StringTypeOK'
  <2>1. heap' \in Heaps /\ b \in Blocks
    BY <1>1, <1>2, <1>4, DupFills DEF Free
  <2> QED BY <1>1, <1>2, <1>3, <1>4, <2>1, MembersType DEF Construct
<1>5. ASSUME SetMembers(o, Null, Len(text), Len(text)), faults' = faults \union {"memory"},
             UNCHANGED heap
      PROVE  StringTypeOK'
  BY <1>1, <1>2, <1>3, <1>5, MembersType DEF Construct
<1> QED BY <1>4, <1>5 DEF Construct

LEMMA CopyFromType ==
  ASSUME StringTypeOK, NEW o \in Objects, NEW p \in live, NEW h \in Heaps,
         NEW len \in Nat, NEW cap \in Nat, len <= cap, CopyFrom(o, p, h, len, cap)
  PROVE  StringTypeOK'
<1>1. CASE Stop("crashed")
  BY <1>1, StopType DEF Stop
<1>2. CASE ~Stop("crashed")
  <2>1. Allocated(h, m_string[p]) /\ live' = live \union {o} /\ UNCHANGED <<control, stray>>
    BY <1>2 DEF CopyFrom
  <2>2. h[m_string[p]] \in Seq(HeapByte)
    BY <2>1 DEF Allocated, Heaps
  <2>3. ASSUME NEW b \in Free(h), NEW text \in Seen(h[m_string[p]]),
               heap' = Dup(h, b, text), SetMembers(o, b, Len(text), Len(text)),
               IF p \in known /\ text = value[p] THEN Promise(o, text) ELSE NoPromise(o),
               UNCHANGED faults
        PROVE  StringTypeOK'
    <3>1. text \in Seq(HeapByte) /\ Len(text) \in Nat
      <4>1. text \in Seq(HeapByte)
        BY <2>2, SeenBytes
      <4> QED BY <4>1
    <3>2. heap' \in Heaps /\ b \in Blocks
      BY <2>3, <3>1, DupFills DEF Free
    <3>3. value' \in Values /\ known' \subseteq live'
      <4>1. value[p] \in Seq(Chars \union {Junk})
        BY DEF StringTypeOK
      <4> QED BY <2>1, <2>3, <4>1, PromiseType
    <3> QED BY <2>1, <2>3, <3>1, <3>2, <3>3, MembersType
  <2>4. ASSUME heap' = h, SetMembers(o, Null, len, cap), faults' = faults \union {"memory"},
               NoPromise(o)
        PROVE  StringTypeOK'
    <3>1. value' \in Values /\ known' \subseteq live'
      <4>1. <<>> \in Seq(Chars \union {Junk})
        OBVIOUS
      <4> QED BY <2>1, <2>4, <4>1, PromiseType
    <3> QED BY <2>1, <2>4, <3>1, MembersType
  <2> QED BY <2>1, <2>3, <2>4 DEF CopyFrom
<1> QED BY <1>1, <1>2

LEMMA CopyType ==
  ASSUME StringTypeOK, NEW o \in Objects, NEW p \in Objects, CopyConstruct(o, p) \/ CopyAssign(o, p)
  PROVE  StringTypeOK'
<1>1. p \in live /\ heap \in Heaps /\ Released(o) \in Heaps
  BY ReleasedFrees DEF CopyConstruct, CopyAssign, StringTypeOK, Heaps, HeapByte
<1>2. CASE CopyConstruct(o, p)
  BY <1>1, <1>2, CopyFromType DEF CopyConstruct
<1>3. CASE CopyAssign(o, p)
  <2>1. \/ Stop("crashed") \/ Stop("aborted")
        \/ CopyFrom(o, p, heap, m_length[o], m_capacity[o])
        \/ CopyFrom(o, p, Released(o), 0, 0)
    BY <1>3 DEF CopyAssign, Method
  <2>2. m_length[o] \in Nat /\ m_capacity[o] \in Nat /\ m_length[o] <= m_capacity[o]
    BY <1>3 DEF CopyAssign, StringTypeOK
  <2>3. CASE Stop("crashed") \/ Stop("aborted")
    BY <2>3, StopType DEF Stop
  <2> QED BY <1>1, <2>1, <2>2, <2>3, CopyFromType
<1> QED BY <1>2, <1>3

LEMMA DestroyType ==
  ASSUME StringTypeOK, NEW o \in Objects, Destroy(o)
  PROVE  StringTypeOK'
<1>1. CASE Stop("crashed") \/ Stop("aborted")
  BY <1>1, StopType DEF Stop
<1>2. CASE /\ heap' = Released(o) /\ SetMembers(o, Null, 0, 0)
           /\ live' = live \ {o} /\ NoPromise(o) /\ UNCHANGED <<control, stray, faults>>
  <2>1. <<>> \in Seq(Chars \union {Junk})
    OBVIOUS
  <2>2. value' \in Values /\ heap' \in Heaps
    BY <1>2, <2>1, PromiseType, ReleasedFrees
  <2>3. known' \subseteq live'
    BY <1>2 DEF NoPromise, StringTypeOK
  <2> QED BY <1>2, <2>2, <2>3, MembersType
<1> QED BY <1>1, <1>2 DEF Destroy, Method

LEMMA MoveAssignType ==
  ASSUME StringTypeOK, NEW o \in Objects, NEW p \in Objects, MoveAssign(o, p)
  PROVE  StringTypeOK'
<1>1. o \in live /\ p \in live /\ o # p /\ m_length[o] <= m_capacity[o]
  BY DEF MoveAssign, StringTypeOK
<1>2. /\ m_string' = Swapped(m_string, o, p) /\ m_length' = Swapped(m_length, o, p)
      /\ m_capacity' = Swapped(m_capacity, o, p)
      /\ value' = Swapped(value, o, p)
      /\ known' \subseteq live /\ UNCHANGED <<live, heap, control, stray, faults>>
  BY <1>1 DEF MoveAssign, Method, Swapped
<1>3. /\ m_string' \in [Objects -> Blocks \union {Null, Wild}]
      /\ m_length' \in [Objects -> Nat] /\ m_capacity' \in [Objects -> Nat]
      /\ value' \in [Objects -> Seq(Chars \union {Junk})]
  BY <1>2 DEF Swapped, StringTypeOK
<1>4. \A q \in live' : m_length'[q] <= m_capacity'[q]
  BY <1>1, <1>2 DEF Swapped, StringTypeOK
<1> QED BY <1>2, <1>3, <1>4 DEF StringTypeOK

LEMMA MoveConstructType ==
  ASSUME StringTypeOK, NEW o \in Objects, NEW p \in Objects, MoveConstruct(o, p)
  PROVE  StringTypeOK'
<1>1. o \notin live /\ p \in live /\ live \subseteq Objects
  BY DEF MoveConstruct, StringTypeOK
<1>2. PICK g \in Garbage :
        \/ /\ control' = "aborted" /\ faults' = faults \union {"moved"}
           /\ UNCHANGED <<live, members, heap, promises, stray>>
        \/ /\ ~(g.m_length > g.m_capacity)
           /\ m_string' = [m_string EXCEPT ![o] = m_string[p], ![p] = g.m_string]
           /\ m_length' = [m_length EXCEPT ![o] = m_length[p], ![p] = g.m_length]
           /\ m_capacity' = [m_capacity EXCEPT ![o] = m_capacity[p], ![p] = g.m_capacity]
           /\ value' = [value EXCEPT ![o] = value[p], ![p] = <<>>]
           /\ known' = (known \ {p}) \union (IF p \in known THEN {o} ELSE {})
           /\ live' = live \union {o} /\ faults' \subseteq faults \union {"moved", "garbage"}
           /\ UNCHANGED <<heap, control, stray>>
  BY DEF MoveConstruct
<1>3. g.m_string \in Blocks \union {Null, Wild} /\ g.m_length \in Nat /\ g.m_capacity \in Nat
  BY GarbageAssumption
<1>4. <<>> \in Seq(Chars \union {Junk})
  OBVIOUS
<1>5. CASE control' = "aborted" /\ faults' = faults \union {"moved"}
           /\ UNCHANGED <<live, members, heap, promises, stray>>
  BY <1>5, StopType
<1>6. CASE /\ ~(g.m_length > g.m_capacity)
           /\ m_string' = [m_string EXCEPT ![o] = m_string[p], ![p] = g.m_string]
           /\ m_length' = [m_length EXCEPT ![o] = m_length[p], ![p] = g.m_length]
           /\ m_capacity' = [m_capacity EXCEPT ![o] = m_capacity[p], ![p] = g.m_capacity]
           /\ value' = [value EXCEPT ![o] = value[p], ![p] = <<>>]
           /\ known' = (known \ {p}) \union (IF p \in known THEN {o} ELSE {})
           /\ live' = live \union {o} /\ faults' \subseteq faults \union {"moved", "garbage"}
           /\ UNCHANGED <<heap, control, stray>>
  <2>1. /\ m_string' \in [Objects -> Blocks \union {Null, Wild}]
        /\ m_length' \in [Objects -> Nat] /\ m_capacity' \in [Objects -> Nat]
        /\ value' \in [Objects -> Seq(Chars \union {Junk})]
    BY <1>3, <1>4, <1>6 DEF StringTypeOK
  <2>2. \A q \in live' : m_length'[q] <= m_capacity'[q]
    BY <1>1, <1>3, <1>6 DEF StringTypeOK
  <2>3. live' \subseteq Objects /\ known' \subseteq live'
        /\ faults' \subseteq {"memory", "moved", "garbage"}
    BY <1>1, <1>6 DEF StringTypeOK
  <2> QED BY <1>6, <2>1, <2>2, <2>3 DEF StringTypeOK
<1> QED BY <1>2, <1>5, <1>6

\* += into any block: the bytes stay bytes, wherever the character goes.
LEMMA PutCharType ==
  ASSUME StringTypeOK, NEW o \in live, NEW c \in Chars, NEW h \in Heaps, NEW b \in Blocks,
         NEW bytes \in Seq(HeapByte), NEW cap \in Nat, m_length[o] < cap,
         PutChar(o, c, h, b, bytes, cap)
  PROVE  StringTypeOK'
<1> DEFINE put == Put(bytes, m_length[o], c)
           beyond == Behind(bytes, m_length[o])
           len == m_length[o] + 1
<1>1. o \in Objects /\ m_length[o] \in Nat /\ Len(bytes) \in Nat
  BY DEF StringTypeOK
<1>2. heap' \in Heaps
  <2>1. put \in Seq(HeapByte) /\ heap' = [h EXCEPT ![b] = put]
    BY <1>1, PutBytes DEF PutChar
  <2> HIDE DEF put
  <2> QED BY <2>1 DEF Heaps
<1>3. stray' \subseteq Nat
  <2>1. beyond \subseteq Nat
    BY <1>1 DEF Behind
  <2>2. stray' = stray \union beyond /\ stray \subseteq Nat
    BY DEF PutChar, StringTypeOK
  <2> QED BY <2>1, <2>2
<1>4. value' \in Values /\ known' \subseteq live'
  <2>1. value[o] \in Seq(Chars \union {Junk}) /\ Append(value[o], c) \in Seq(Chars \union {Junk})
    BY <1>1 DEF StringTypeOK
  <2> QED BY <2>1 DEF PutChar, StringTypeOK, Values
<1>5. len \in Nat /\ len <= cap /\ SetMembers(o, b, len, cap) /\ live' = live \union {o}
      /\ control' = control /\ faults' = faults
  BY <1>1 DEF PutChar
<1> HIDE DEF len
<1> QED BY <1>1, <1>2, <1>3, <1>4, <1>5, MembersType

LEMMA PlusCharType ==
  ASSUME StringTypeOK, NEW o \in Objects, NEW c \in Chars, PlusChar(o, c)
  PROVE  StringTypeOK'
<1>1. o \in live /\ m_length[o] <= m_capacity[o] /\ m_length[o] \in Nat
      /\ m_capacity[o] \in Nat /\ heap \in Heaps /\ Released(o) \in Heaps
  BY ReleasedFrees DEF PlusChar, StringTypeOK, Heaps, HeapByte
<1>2. CASE Stop("crashed") \/ Stop("aborted")
  BY <1>2, StopType DEF Stop
<1>3. CASE /\ control' = "aborted" /\ faults' = faults \union {"memory"}
           /\ UNCHANGED <<live, members, heap, promises, stray>>
  BY <1>3, StopType
<1> DEFINE old == IF m_string[o] = Null THEN <<>> ELSE heap[m_string[o]]
           cap == NewCapacity(m_capacity[o])
<1>4. ~Dangles(heap, m_string[o]) => old \in Seq(HeapByte)
  <2>1. <<>> \in Seq(HeapByte)
    OBVIOUS
  <2> QED BY <1>1, <2>1 DEF Dangles, Allocated, Heaps
<1>5. ASSUME NEW b \in Free(Released(o)), PutChar(o, c, Released(o), b, Resized(old, cap), cap),
             ~Dangles(heap, m_string[o])
      PROVE  StringTypeOK'
  <2>1. cap \in Nat /\ m_length[o] < cap /\ old \in Seq(HeapByte) /\ b \in Blocks
    <3>1. cap \in Nat /\ cap >= m_capacity[o] + 1
      BY <1>1, GrowsEnough
    <3>2. old \in Seq(HeapByte) /\ b \in Blocks
      BY <1>4, <1>5 DEF Free
    <3> HIDE DEF cap, old
    <3> QED BY <1>1, <3>1, <3>2
  <2>2. PutChar(o, c, Released(o), b, Resized(old, cap), cap)
    BY <1>5
  <2> HIDE DEF old, cap
  <2>3. Resized(old, cap) \in Seq(HeapByte)
    BY <2>1, ResizedBytes
  <2> QED BY <1>1, <2>1, <2>2, <2>3, PutCharType
<1>6. CASE /\ PutChar(o, c, heap, m_string[o], heap[m_string[o]], m_capacity[o])
           /\ ~Dangles(heap, m_string[o]) /\ m_string[o] # Null
           /\ ~MustGrow(m_length[o], m_capacity[o])
  <2>1. m_string[o] \in Blocks /\ heap[m_string[o]] \in Seq(HeapByte)
        /\ m_length[o] < m_capacity[o]
    BY <1>1, <1>6 DEF Dangles, Allocated, Heaps, MustGrow
  <2> QED BY <1>1, <1>6, <2>1, PutCharType
<1> QED BY <1>2, <1>3, <1>5, <1>6 DEF PlusChar, Method

LEMMA TypeStep == StringTypeOK /\ [StringNext]_stringVars => StringTypeOK'
<1> SUFFICES ASSUME StringTypeOK, [StringNext]_stringVars
             PROVE  StringTypeOK'
  OBVIOUS
<1>1. CASE UNCHANGED stringVars
  BY <1>1 DEF stringVars, members, promises, StringTypeOK
<1>2. CASE StringNext
  BY <1>2, ConstructType, CopyType, MoveConstructType, MoveAssignType, PlusCharType, DestroyType
     DEF StringNext
<1> QED BY <1>1, <1>2

\* A fault is not forgotten.
LEMMA FaultsStay == [StringNext]_stringVars => faults \subseteq faults'
<1> SUFFICES ASSUME [StringNext]_stringVars
             PROVE  faults \subseteq faults'
  OBVIOUS
<1>1. \A o \in Objects, text \in Texts : Construct(o, text) => faults \subseteq faults'
  BY DEF Construct
<1>2. ASSUME NEW o \in Objects, NEW p \in Objects, CopyConstruct(o, p) \/ CopyAssign(o, p)
      PROVE  faults \subseteq faults'
  BY <1>2 DEF CopyConstruct, CopyAssign, CopyFrom, Method, Stop
<1>3. ASSUME NEW o \in Objects, NEW p \in Objects, MoveConstruct(o, p) \/ MoveAssign(o, p)
      PROVE  faults \subseteq faults'
  BY <1>3 DEF MoveConstruct, MoveAssign, Method, Stop
<1>4. ASSUME NEW o \in Objects, NEW c \in Chars, PlusChar(o, c)
      PROVE  faults \subseteq faults'
  BY <1>4 DEF PlusChar, PutChar, Method, Stop
<1>5. \A o \in Objects : Destroy(o) => faults \subseteq faults'
  BY DEF Destroy, Method, Stop
<1> QED BY <1>1, <1>2, <1>3, <1>4, <1>5 DEF StringNext, stringVars

-------------------------------------------------------------------------------
(* GuardedInv is inductive. *)

LEMMA GuardedInvStep == GuardedInv /\ [StringNext]_stringVars => GuardedInv'
<1> SUFFICES ASSUME GuardedInv, [StringNext]_stringVars
             PROVE  GuardedInv'
  OBVIOUS
<1>1. StringTypeOK'
  BY TypeStep DEF GuardedInv
<1>2. Intact' => StringInv'
  BY FaultsStay, StringInvStep DEF GuardedInv, Intact
<1>3. StopsOnlyAfterFault'
  BY <1>2 DEF StringInv, StopsOnlyAfterFault, Intact
<1> QED BY <1>1, <1>2, <1>3 DEF GuardedInv

LEMMA GuardedInvInit == StringInit => GuardedInv
<1> SUFFICES ASSUME StringInit
             PROVE  StringInv
  BY DEF GuardedInv, StringInv
<1>1. <<>> \in Seq(Chars \union {Nul, Junk}) /\ <<>> \in Seq(Chars \union {Junk})
  OBVIOUS
<1>2. StringTypeOK
  BY <1>1 DEF StringInit, StringTypeOK
<1> QED BY <1>2 DEF StringInit, StringInv, Owned, Free, Room, HasBlock,
                    StrayOne, StopsOnlyAfterFault

LEMMA StringInvariant == StringSpec => []GuardedInv
  BY GuardedInvInit, GuardedInvStep, PTL DEF StringSpec

-------------------------------------------------------------------------------
(* The theorems. *)

\* Lengths stay within capacities, and every variable in its range, whatever the
\* storage of a new object holds: the asserts at both ends of the class's methods
\* hold, but for the one inside a construction by a move.
THEOREM StringsTyped == StringSpec => []StringTypeOK
<1>1. GuardedInv => StringTypeOK
  BY DEF GuardedInv
<1> QED BY <1>1, StringInvariant, PTL

\* Until a construction by a move leaves a string with the address of a block that
\* it found in uninitialised storage, no block is leaked, shared, or used after it
\* was freed.
THEOREM BlocksOwned == StringSpec => []OneOwner
<1>1. GuardedInv => OneOwner
  BY DEF GuardedInv, StringInv, OneOwner
<1> QED BY <1>1, StringInvariant, PTL

\* Until then, += writes at most one byte outside its block, the one directly
\* behind it.
THEOREM StrayBounded == StringSpec => []StrayByteIsTerminator
<1>1. GuardedInv => StrayByteIsTerminator
  BY DEF GuardedInv, StringInv, StrayOne, StrayByteIsTerminator
<1> QED BY <1>1, StringInvariant, PTL

\* A program of copies, assignments, moves by assignment and += never fails an
\* assert or follows a null pointer while memory lasts.
THEOREM StopsExplained == StringSpec => []StopsOnlyAfterFault
<1>1. GuardedInv => StopsOnlyAfterFault
  BY DEF GuardedInv
<1> QED BY <1>1, StringInvariant, PTL

-------------------------------------------------------------------------------
(* The text of a string. *)

Kept(o) ==
  /\ m_string[o] \in Blocks /\ m_length[o] = Len(value[o])
  /\ \A i \in 1..m_length[o] : heap[m_string[o]][i] = value[o][i]
  /\ \/ m_length[o] = Len(heap[m_string[o]])
     \/ heap[m_string[o]][m_length[o] + 1] = Nul

LEMMA KeptIsValueKept == ValueKept <=> (Intact => \A o \in known : Kept(o))
  BY DEF ValueKept, Kept, CharAt

LEMMA KeptNextIsValueKept == ValueKept' <=> (Intact' => \A o \in known' : Kept(o)')
  BY DEF ValueKept, Kept, CharAt

\* A step that gives o another block, or none, leaves the other texts alone.
LEMMA OthersKept ==
  ASSUME StringInv, NEW o \in Objects, NEW ptr, NEW len, NEW cap, SetMembers(o, ptr, len, cap),
         NEW h \in Heaps, Without(o, h),
         heap' = h \/ \E b \in Blocks : \E bytes : h[b] = <<>> /\ heap' = [h EXCEPT ![b] = bytes],
         NEW p \in live, p # o, Kept(p), value'[p] = value[p]
  PROVE  Kept(p)'
<1> USE DEF StringInv
<1>1. p \in Objects /\ m_string[p] \in Blocks
  BY DEF Kept, StringTypeOK
<1>2. m_string'[p] = m_string[p] /\ m_length'[p] = m_length[p]
  BY <1>1 DEF SetMembers, StringTypeOK
<1>3. heap[m_string[p]] # <<>> /\ h[m_string[p]] = heap[m_string[p]]
  BY <1>1 DEF Without, Owned, Free
<1>4. heap'[m_string[p]] = heap[m_string[p]]
  <2>1. ASSUME NEW b \in Blocks, NEW bytes, h[b] = <<>>, heap' = [h EXCEPT ![b] = bytes]
        PROVE  heap'[m_string[p]] = heap[m_string[p]]
    BY <1>1, <1>3, <2>1 DEF Heaps
  <2> QED BY <1>3, <2>1
<1> QED BY <1>2, <1>4 DEF Kept

\* strdup leaves the text in its block, with its terminator.
LEMMA DupKept ==
  ASSUME StringInv, NEW o \in Objects, NEW b \in Blocks, NEW h \in Heaps,
         NEW text \in Seq(HeapByte),
         heap' = Dup(h, b, text), SetMembers(o, b, Len(text), Len(text)), value'[o] = text
  PROVE  Kept(o)'
<1>1. heap'[b] = Append(text, Nul)
  BY DupFills DEF Heaps
<1>2. m_string'[o] = b /\ m_length'[o] = Len(text)
  BY DEF SetMembers, StringInv, StringTypeOK
<1>3. /\ \A i \in 1..Len(text) : Append(text, Nul)[i] = text[i]
      /\ Append(text, Nul)[Len(text) + 1] = Nul
  BY DEF HeapByte
<1> QED BY <1>1, <1>2, <1>3 DEF Kept

LEMMA ConstructKept ==
  ASSUME StringInv, \A q \in known : Kept(q), NEW o \in Objects, NEW text \in Texts,
         Construct(o, text), NEW p \in known'
  PROVE  Kept(p)'
<1> USE DEF StringInv
<1>1. o \notin live /\ known \subseteq live /\ live \subseteq Objects
      /\ heap \in Heaps /\ Without(o, heap) /\ text \in Seq(HeapByte)
  BY TextAssumption DEF Construct, Without, StringTypeOK, Heaps, HeapByte
<1>2. ASSUME NEW b \in Free(heap),
             heap' = Dup(heap, b, text), SetMembers(o, b, Len(text), Len(text)), Promise(o, text)
      PROVE  Kept(p)'
  <2>1. b \in Blocks /\ heap[b] = <<>> /\ heap' = [heap EXCEPT ![b] = Append(text, Nul)]
    BY <1>2 DEF Free, Dup
  <2>2. value'[o] = text /\ (\A q \in Objects \ {o} : value'[q] = value[q])
        /\ known' = known \union {o}
    BY <1>2 DEF Promise, StringTypeOK
  <2>3. CASE p = o
    BY <1>1, <1>2, <2>1, <2>2, <2>3, DupKept
  <2>4. CASE p # o
    <3>1. p \in live /\ Kept(p) /\ value'[p] = value[p]
      BY <1>1, <2>2, <2>4
    <3> QED BY <1>1, <1>2, <2>1, <2>4, <3>1, OthersKept
  <2> QED BY <2>3, <2>4
<1>3. ASSUME SetMembers(o, Null, Len(text), Len(text)), NoPromise(o), heap' = heap
      PROVE  Kept(p)'
  <2>1. p \in live /\ p # o /\ Kept(p) /\ value'[p] = value[p]
    BY <1>1, <1>3 DEF NoPromise, StringTypeOK
  <2> QED BY <1>1, <1>3, <2>1, OthersKept
<1> QED BY <1>2, <1>3 DEF Construct

LEMMA CopyFromKept ==
  ASSUME StringInv, \A q \in known : Kept(q), NEW o \in Objects, NEW p \in live, o # p,
         NEW h \in Heaps, NEW len, NEW cap, Without(o, h), CopyFrom(o, p, h, len, cap), NEW q \in known'
  PROVE  Kept(q)'
<1> USE DEF StringInv
<1>1. known \subseteq live /\ live \subseteq Objects
  BY DEF StringTypeOK
<1>0. /\ Allocated(h, m_string[p]) <=> m_string[p] \in Blocks
      /\ m_string[p] \in Blocks => h[m_string[p]] = heap[m_string[p]]
  BY SourceStays
<1>2. CASE m_string[p] \notin Blocks
  <2>1. UNCHANGED <<members, heap, promises>>
    BY <1>0, <1>2 DEF CopyFrom, Stop
  <2> QED BY <2>1 DEF Kept, members, promises
<1> SUFFICES ASSUME m_string[p] \in Blocks
             PROVE  Kept(q)'
  BY <1>2
<1>3. ASSUME NoPromise(o) PROVE q \in live /\ q # o /\ Kept(q) /\ value'[q] = value[q]
  BY <1>1, <1>3 DEF NoPromise, StringTypeOK
<1>4. ASSUME NEW b \in Free(h), NEW text \in Seen(heap[m_string[p]]),
             heap' = Dup(h, b, text), SetMembers(o, b, Len(text), Len(text)),
             IF p \in known /\ text = value[p] THEN Promise(o, text) ELSE NoPromise(o)
      PROVE  Kept(q)'
  <2>1. b \in Blocks /\ h[b] = <<>> /\ heap' = [h EXCEPT ![b] = Append(text, Nul)]
    BY <1>4 DEF Free, Dup
  <2>2. CASE NoPromise(o)
    BY <1>3, <1>4, <2>1, <2>2, OthersKept
  <2>3. CASE Promise(o, text)
    <3>1. text \in Seq(HeapByte)
      <4>1. heap[m_string[p]] \in Seq(HeapByte)
        BY DEF StringTypeOK, HeapByte
      <4> QED BY <4>1, SeenBytes
    <3>2. value'[o] = text /\ (\A r \in Objects \ {o} : value'[r] = value[r])
          /\ known' = known \union {o}
      BY <2>3 DEF Promise, StringTypeOK
    <3>3. CASE q = o
      BY <1>4, <2>1, <3>1, <3>2, <3>3, DupKept
    <3>4. CASE q # o
      <4>1. q \in live /\ Kept(q) /\ value'[q] = value[q]
        BY <1>1, <3>2, <3>4
      <4> QED BY <1>4, <2>1, <3>4, <4>1, OthersKept
    <3> QED BY <3>3, <3>4
  <2> QED BY <1>4, <2>2, <2>3
<1>5. ASSUME heap' = h, SetMembers(o, Null, len, cap), NoPromise(o)
      PROVE  Kept(q)'
  BY <1>3, <1>5, OthersKept
<1> QED BY <1>0, <1>4, <1>5 DEF CopyFrom

\* A step that ends the program changes no string.
LEMMA EndKept ==
  ASSUME UNCHANGED <<members, heap, promises>>, \A q \in known : Kept(q), NEW q \in known'
  PROVE  Kept(q)'
  BY DEF Kept, members, promises

LEMMA CopyKept ==
  ASSUME StringInv, \A q \in known : Kept(q), NEW o \in Objects, NEW p \in Objects,
         CopyConstruct(o, p) \/ CopyAssign(o, p), NEW q \in known'
  PROVE  Kept(q)'
<1>1. p \in live /\ o # p /\ heap \in Heaps
  BY DEF CopyConstruct, CopyAssign, StringInv, StringTypeOK, Heaps, HeapByte
<1>2. CASE CopyConstruct(o, p)
  <2>1. Without(o, heap) /\ CopyFrom(o, p, heap, 0, 0)
    BY <1>2 DEF CopyConstruct, Without
  <2> QED BY <1>1, <2>1, CopyFromKept
<1>3. CASE CopyAssign(o, p)
  <2>1. \/ Stop("crashed") \/ Stop("aborted")
        \/ m_string[o] = Null /\ CopyFrom(o, p, heap, m_length[o], m_capacity[o])
        \/ CopyFrom(o, p, Released(o), 0, 0)
    BY <1>3 DEF CopyAssign, Method
  <2>2. Released(o) \in Heaps /\ Without(o, Released(o))
    BY <1>3, ReleasedFrees DEF CopyAssign, Without, StringInv
  <2>3. m_string[o] = Null => Without(o, heap)
    BY NoBlock DEF Without
  <2> QED BY <1>1, <2>1, <2>2, <2>3, CopyFromKept, EndKept DEF Stop
<1> QED BY <1>2, <1>3

LEMMA DestroyKept ==
  ASSUME StringInv, \A q \in known : Kept(q), NEW o \in Objects, Destroy(o), NEW q \in known'
  PROVE  Kept(q)'
<1> USE DEF StringInv
<1>1. \/ Stop("crashed") \/ Stop("aborted")
      \/ heap' = Released(o) /\ SetMembers(o, Null, 0, 0) /\ NoPromise(o)
  BY DEF Destroy, Method
<1>2. CASE heap' = Released(o) /\ SetMembers(o, Null, 0, 0) /\ NoPromise(o)
  <2>1. q \in live /\ q # o /\ Kept(q) /\ value'[q] = value[q]
    BY <1>2 DEF NoPromise, StringTypeOK
  <2>2. Released(o) \in Heaps /\ Without(o, Released(o))
    BY ReleasedFrees DEF Destroy, Without
  <2> QED BY <1>2, <2>1, <2>2, OthersKept
<1> QED BY <1>1, <1>2, EndKept DEF Stop

LEMMA MoveKept ==
  ASSUME StringInv, \A q \in known : Kept(q), NEW o \in Objects, NEW p \in Objects,
         MoveConstruct(o, p) \/ MoveAssign(o, p), NEW q \in known'
  PROVE  Kept(q)'
<1> USE DEF StringInv
<1>1. p \in live /\ o # p /\ known \subseteq live /\ live \subseteq Objects
  BY DEF MoveConstruct, MoveAssign, StringTypeOK
<1>2. ASSUME NEW r \in known, m_string'[q] = m_string[r], m_length'[q] = m_length[r],
             value'[q] = value[r], heap' = heap
      PROVE  Kept(q)'
  BY <1>2 DEF Kept
<1>3. CASE MoveAssign(o, p)
  <2>1. CASE UNCHANGED <<members, heap, promises>>
    BY <2>1, EndKept
  <2>2. CASE /\ m_string' = Swapped(m_string, o, p) /\ m_length' = Swapped(m_length, o, p)
             /\ value' = [value EXCEPT ![o] = value[p], ![p] = value[o]]
             /\ known' = {x \in live : CASE x = o -> p \in known
                                         [] x = p -> o \in known
                                         [] OTHER -> x \in known}
             /\ heap' = heap
    <3>1. CASE q = o
      <4>1. p \in known /\ m_string'[q] = m_string[p] /\ m_length'[q] = m_length[p]
            /\ value'[q] = value[p]
        BY <1>1, <2>2, <3>1 DEF Swapped, StringTypeOK
      <4> QED BY <1>2, <2>2, <4>1
    <3>2. CASE q = p
      <4>1. o \in known /\ m_string'[q] = m_string[o] /\ m_length'[q] = m_length[o]
            /\ value'[q] = value[o]
        BY <1>1, <2>2, <3>2 DEF Swapped, StringTypeOK
      <4> QED BY <1>2, <2>2, <4>1
    <3>3. CASE q # o /\ q # p
      <4>1. q \in known /\ m_string'[q] = m_string[q] /\ m_length'[q] = m_length[q]
            /\ value'[q] = value[q]
        BY <1>1, <2>2, <3>3 DEF Swapped, StringTypeOK
      <4> QED BY <1>2, <2>2, <4>1
    <3> QED BY <3>1, <3>2, <3>3
  <2> QED BY <1>3, <2>1, <2>2 DEF MoveAssign, Method, Stop
<1>4. CASE MoveConstruct(o, p)
  <2>1. CASE UNCHANGED <<members, heap, promises>>
    BY <2>1, EndKept
  <2>2. ASSUME NEW g \in Garbage,
               m_string' = [m_string EXCEPT ![o] = m_string[p], ![p] = g.m_string],
               m_length' = [m_length EXCEPT ![o] = m_length[p], ![p] = g.m_length],
               value' = [value EXCEPT ![o] = value[p], ![p] = <<>>],
               known' = (known \ {p}) \union (IF p \in known THEN {o} ELSE {}),
               heap' = heap
        PROVE  Kept(q)'
    <3>1. CASE q = o
      <4>1. o \notin known
        BY <1>1, <1>4 DEF MoveConstruct
      <4>2. p \in known /\ m_string'[q] = m_string[p] /\ m_length'[q] = m_length[p]
            /\ value'[q] = value[p]
        BY <1>1, <2>2, <3>1, <4>1 DEF StringTypeOK
      <4> QED BY <1>2, <2>2, <4>2
    <3>2. CASE q # o
      <4>1. q \in known /\ m_string'[q] = m_string[q] /\ m_length'[q] = m_length[q]
            /\ value'[q] = value[q]
        BY <1>1, <2>2, <3>2 DEF StringTypeOK
      <4> QED BY <1>2, <2>2, <4>1
    <3> QED BY <3>1, <3>2
  <2> QED BY <1>4, <2>1, <2>2 DEF MoveConstruct
<1> QED BY <1>3, <1>4

\* += puts the character behind the text and moves the terminator on.
LEMMA PutCharKept ==
  ASSUME StringInv, \A q \in known : Kept(q), NEW o \in live, NEW c \in Chars, NEW h \in Heaps,
         NEW b \in Blocks, NEW bytes \in Seq(HeapByte), NEW cap,
         Without(o, h), h[b] = <<>>, m_length[o] < Len(bytes),
         o \in known => \A i \in 1..m_length[o] : bytes[i] = value[o][i],
         heap' = [h EXCEPT ![b] = Put(bytes, m_length[o], c)],
         SetMembers(o, b, m_length[o] + 1, cap),
         value' = [value EXCEPT ![o] = IF o \in known THEN Append(@, c) ELSE @],
         known' = known, NEW q \in known'
  PROVE  Kept(q)'
<1> USE DEF StringInv
<1>1. o \in Objects /\ m_length[o] \in Nat /\ known \subseteq live /\ live \subseteq Objects
      /\ Len(bytes) \in Nat /\ q \in Objects
  BY DEF StringTypeOK
<1>2. CASE q = o
  <2> DEFINE len == m_length[o]
             put == Put(bytes, len, c)
  <2>1. heap'[b] = put /\ m_string'[o] = b /\ m_length'[o] = len + 1
        /\ value'[o] = Append(value[o], c)
    BY <1>1, <1>2 DEF SetMembers, StringTypeOK, Heaps
  <2>2. len = Len(value[o]) /\ value[o] \in Seq(Chars \union {Junk})
    BY <1>1, <1>2 DEF Kept, StringTypeOK
  <2>3. Len(put) = Len(bytes)
        /\ \A i \in 1..Len(bytes) :
             put[i] = CASE i = len + 1 -> c [] i = len + 2 -> Nul [] OTHER -> bytes[i]
    BY <1>1, PutBytes
  <2> HIDE DEF put
  <2>4. Len(Append(value[o], c)) = len + 1
        /\ \A i \in 1..(len + 1) : Append(value[o], c)[i] = IF i <= len THEN value[o][i] ELSE c
    BY <1>1, <2>2
  <2>5. \A i \in 1..(len + 1) : put[i] = Append(value[o], c)[i]
    <3> SUFFICES ASSUME NEW i \in 1..(len + 1)
                 PROVE  put[i] = Append(value[o], c)[i]
      OBVIOUS
    <3>1. i \in 1..Len(bytes)
      BY <1>1
    <3>2. CASE i = len + 1
      BY <1>1, <2>3, <2>4, <3>1, <3>2
    <3>3. CASE i # len + 1
      <4>1. i \in 1..len /\ put[i] = bytes[i]
        BY <1>1, <2>3, <3>1, <3>3
      <4> QED BY <1>1, <1>2, <2>4, <4>1
    <3> QED BY <3>2, <3>3
  <2>6. len + 1 = Len(put) \/ put[len + 2] = Nul
    BY <1>1, <2>3
  <2> QED BY <1>1, <1>2, <2>1, <2>4, <2>5, <2>6 DEF Kept
<1>3. CASE q # o
  <2>1. q \in live /\ Kept(q) /\ value'[q] = value[q]
    BY <1>1, <1>3 DEF StringTypeOK
  <2> QED BY <1>1, <1>3, <2>1, OthersKept
<1> QED BY <1>2, <1>3

LEMMA PlusCharKept ==
  ASSUME StringInv, \A q \in known : Kept(q), NEW o \in Objects, NEW c \in Chars,
         PlusChar(o, c), NEW q \in known'
  PROVE  Kept(q)'
<1> USE DEF StringInv
<1>1. o \in live /\ m_length[o] <= m_capacity[o] /\ m_length[o] \in Nat
      /\ m_capacity[o] \in Nat /\ m_string[o] \in Blocks \union {Null, Wild}
      /\ known \subseteq live /\ (Dangles(heap, m_string[o]) <=> m_string[o] = Wild)
  BY OwnedAllocated DEF PlusChar, StringTypeOK
<1>2. Released(o) \in Heaps /\ Without(o, Released(o))
  BY <1>1, ReleasedFrees DEF Without
<1>3. CASE UNCHANGED <<members, heap, promises>>
  BY <1>3, EndKept
<1>4. m_string[o] \in Blocks => heap[m_string[o]] \in Seq(HeapByte)
                                /\ m_capacity[o] <= Len(heap[m_string[o]])
                                /\ Len(heap[m_string[o]]) \in Nat
  BY <1>1 DEF StringTypeOK, HeapByte, Room
<1>5. ASSUME NEW b \in Free(Released(o)),
             LET old == IF m_string[o] = Null THEN <<>> ELSE heap[m_string[o]]
                 cap == NewCapacity(m_capacity[o])
             IN PutChar(o, c, Released(o), b, Resized(old, cap), cap),
             m_string[o] # Wild
      PROVE  Kept(q)'
  <2> DEFINE old == IF m_string[o] = Null THEN <<>> ELSE heap[m_string[o]]
             cap == NewCapacity(m_capacity[o])
             bytes == Resized(old, cap)
  <2>1. PutChar(o, c, Released(o), b, bytes, cap)
    BY <1>5
  <2>2. cap \in Nat /\ m_length[o] < cap
    BY <1>1, GrowsEnough
  <2>3. old \in Seq(HeapByte)
    <3>1. <<>> \in Seq(HeapByte)
      OBVIOUS
    <3> QED BY <1>1, <1>4, <1>5, <3>1
  <2> HIDE DEF cap
  <2>4. bytes \in Seq(HeapByte) /\ Len(bytes) = cap
        /\ \A i \in 1..cap : bytes[i] = IF i <= Len(old) THEN old[i] ELSE Junk
    BY <2>2, <2>3, ResizedBytes
  <2>5. ASSUME o \in known, NEW i \in 1..m_length[o] PROVE bytes[i] = value[o][i]
    <3>1. m_string[o] \in Blocks /\ heap[m_string[o]][i] = value[o][i]
      BY <2>5 DEF Kept
    <3>2. old = heap[m_string[o]] /\ i <= Len(old) /\ i \in 1..cap
      BY <1>1, <1>4, <2>2, <3>1, NoBlock
    <3> QED BY <2>4, <3>1, <3>2
  <2>6. b \in Blocks /\ Released(o)[b] = <<>>
    BY DEF Free
  <2> HIDE DEF bytes
  <2> QED BY <1>1, <1>2, <2>1, <2>2, <2>4, <2>5, <2>6, PutCharKept DEF PutChar
<1>6. CASE /\ m_string[o] \in Blocks /\ ~MustGrow(m_length[o], m_capacity[o])
           /\ PutChar(o, c, heap, m_string[o], heap[m_string[o]], m_capacity[o])
  <2> DEFINE b == m_string[o]
             bytes == heap[b]
  <2>1. bytes \in Seq(HeapByte) /\ m_length[o] < Len(bytes)
    BY <1>1, <1>4, <1>6 DEF MustGrow
  <2>2. Released(o)[b] = <<>>
    BY <1>1, <1>2, <1>6 DEF Without
  <2>3. heap' = [Released(o) EXCEPT ![b] = Put(bytes, m_length[o], c)]
    BY <1>6 DEF PutChar, Released, StringTypeOK
  <2>4. o \in known => \A i \in 1..m_length[o] : bytes[i] = value[o][i]
    BY DEF Kept
  <2> HIDE DEF bytes
  <2> QED BY <1>1, <1>2, <1>6, <2>1, <2>2, <2>3, <2>4, PutCharKept DEF PutChar
<1>7. m_string[o] # Null /\ m_string[o] # Wild => m_string[o] \in Blocks
  BY <1>1
<1> QED BY <1>1, <1>3, <1>5, <1>6, <1>7 DEF PlusChar, Method, Stop

LEMMA ValueKeptStep == GuardedInv /\ ValueKept /\ [StringNext]_stringVars => ValueKept'
<1> SUFFICES ASSUME GuardedInv, ValueKept, [StringNext]_stringVars, Intact', NEW q \in known'
             PROVE  Kept(q)'
  BY KeptNextIsValueKept
<1>1. StringInv /\ \A o \in known : Kept(o)
  BY FaultsStay, KeptIsValueKept DEF GuardedInv, Intact
<1>2. CASE UNCHANGED stringVars
  BY <1>1, <1>2, EndKept DEF stringVars
<1>3. CASE StringNext
  BY <1>1, <1>3, ConstructKept, CopyKept, MoveKept, PlusCharKept, DestroyKept DEF StringNext
<1> QED BY <1>2, <1>3

\* While the strings are intact, each holds the text that was put into it, through
\* every copy, move, assignment and +=, although += may leave a block without a
\* terminator.
THEOREM TextsKept == StringSpec => []ValueKept
<1>1. StringInit => ValueKept
  BY DEF StringInit, ValueKept
<1> QED BY <1>1, StringInvariant, ValueKeptStep, PTL DEF StringSpec

-------------------------------------------------------------------------------
(* The comparisons. *)

\* Over bytes that both strings hold, strncmp compares the texts.
LEMMA SameBytesSameText ==
  ASSUME StringTypeOK, NEW o \in known, NEW p \in known, Kept(o), Kept(p),
         NEW n \in Nat, n <= m_length[o], n <= m_length[p]
  PROVE  SameBytes(o, p, n) <=> \A i \in 1..n : value[o][i] = value[p][i]
<1>1. m_length[o] \in Nat /\ m_length[p] \in Nat
  BY DEF StringTypeOK
<1>2. \A i \in 1..n : CharAt(o, i) = value[o][i] /\ CharAt(p, i) = value[p][i]
  BY <1>1 DEF Kept, CharAt
<1>3. \A i \in 1..n : CharAt(o, i) # Nul
  <2>1. value[o] \in Seq(Chars \union {Junk}) /\ n <= Len(value[o])
    BY DEF StringTypeOK, Kept
  <2>2. \A i \in 1..n : value[o][i] \in Chars \union {Junk}
    BY <2>1
  <2> QED BY <1>2, <2>2, TextAssumption DEF Nul, Junk
<1>4. ASSUME NEW k \in 0..n, k = n \/ (k > 0 /\ CharAt(o, k) = Nul) PROVE k = n
  BY <1>3, <1>4
<1> QED BY <1>2, <1>4 DEF SameBytes

\* Wherever the texts are kept, == and startsWith answer about the texts.
LEMMA KeptTextsCompare == StringTypeOK /\ ValueKept => ComparisonsAgree
<1> SUFFICES ASSUME StringTypeOK, \A q \in known : Kept(q), NEW o \in known, NEW p \in known
             PROVE  /\ Equals(o, p) <=> value[o] = value[p]
                    /\ StartsWith(o, p) <=>
                         /\ Len(value[p]) <= Len(value[o])
                         /\ SubSeq(value[o], 1, Len(value[p])) = value[p]
  BY KeptIsValueKept DEF ComparisonsAgree
<1> DEFINE s == value[o]
           t == value[p]
<1>1. /\ s \in Seq(Chars \union {Junk}) /\ t \in Seq(Chars \union {Junk})
      /\ m_length[o] = Len(s) /\ m_length[p] = Len(t) /\ Len(s) \in Nat /\ Len(t) \in Nat
  BY DEF Kept, StringTypeOK
<1>2. \A n \in Nat : n <= Len(s) /\ n <= Len(t)
                       => (SameBytes(o, p, n) <=> \A i \in 1..n : s[i] = t[i])
  BY <1>1, SameBytesSameText
<1> HIDE DEF s, t
<1>3. Equals(o, p) <=> s = t
  <2>1. s = t => Len(s) = Len(t) /\ \A i \in 1..Len(s) : s[i] = t[i]
    OBVIOUS
  <2>2. Len(s) = Len(t) /\ (\A i \in 1..Len(s) : s[i] = t[i]) => s = t
    BY <1>1
  <2> QED BY <1>1, <1>2, <2>1, <2>2 DEF Equals
<1>4. StartsWith(o, p) <=> Len(t) <= Len(s) /\ SubSeq(s, 1, Len(t)) = t
  <2>1. CASE Len(t) <= Len(s)
    <3> DEFINE head == SubSeq(s, 1, Len(t))
    <3>1. head \in Seq(Chars \union {Junk}) /\ Len(head) = Len(t)
          /\ \A i \in 1..Len(t) : head[i] = s[i]
      BY <1>1, <2>1
    <3> HIDE DEF head
    <3>2. head = t <=> \A i \in 1..Len(t) : s[i] = t[i]
      BY <1>1, <3>1
    <3>3. StartsWith(o, p) <=> SameBytes(o, p, Len(t))
      BY <1>1, <2>1 DEF StartsWith
    <3> QED BY <1>1, <1>2, <2>1, <3>2, <3>3 DEF head
  <2>2. CASE ~(Len(t) <= Len(s))
    BY <1>1, <2>2 DEF StartsWith
  <2> QED BY <2>1, <2>2
<1> QED BY <1>3, <1>4 DEF s, t

\* Equality and prefixes of intact strings, by which the handshakes tell lines apart,
\* are those of their texts.
THEOREM ComparisonsCompare == StringSpec => []ComparisonsAgree
<1>1. GuardedInv => StringTypeOK
  BY DEF GuardedInv
<1> QED BY <1>1, KeptTextsCompare, StringInvariant, TextsKept, PTL
===============================================================================
