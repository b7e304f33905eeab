----------------------------- MODULE StringBuffer -----------------------------
(***************************************************************************)
(* Class String of platform/generic/ws_string.h, the strings both          *)
(* handshakes work with: objects that own a block of the heap each, and    *)
(* the program that constructs, copies, moves, extends and destroys them.  *)
(***************************************************************************)
EXTENDS Integers, Sequences

CONSTANTS
  Objects,      \* the storage of String objects
  Blocks,       \* the blocks the heap can hand out, by address
  Chars,        \* characters, but for the terminator
  Texts,        \* what strings are constructed from
  Extra,        \* the 10 that grow() adds to a capacity
  Garbage,      \* what uninitialised members may hold
  MaxLength     \* bound: += is called on shorter strings

VARIABLES
  live,         \* the objects that are constructed and not destroyed
  m_string, m_length, m_capacity,
  heap,         \* what each block holds, <<>> while it is free
  control,      \* "running", "aborted" by an assert, or "crashed"
  value, known, \* history: the text a string has to hold, and for which strings
  stray,        \* history: how far behind the end of a block was written
  faults        \* history: "memory" ran out, a string was "moved" into a new
                \* object, and was left with "garbage", the address of some block

members == <<m_string, m_length, m_capacity>>
promises == <<value, known>>
stringVars == <<live, members, heap, control, promises, stray, faults>>

Null == 0
Wild == -1      \* a pointer to no block
Nul == 0
Junk == -1      \* a byte that nobody wrote

ASSUME HeapAssumption == Blocks \subseteq Nat \ {0} /\ Extra \in Nat \ {0}
ASSUME TextAssumption == Chars \subseteq Nat \ {0} /\ Texts \subseteq Seq(Chars)
ASSUME GarbageAssumption ==
  Garbage \subseteq [m_string : Blocks \union {Null, Wild}, m_length : Nat, m_capacity : Nat]

-------------------------------------------------------------------------------
(* The C library. *)

Free(h) == {b \in Blocks : h[b] = <<>>}

\* Whether free(), realloc() and strdup() can do with this pointer what they are
\* meant to.  A program that gives them another one, or writes through it, is taken
\* to end.
Allocated(h, ptr) == ptr \in Blocks /\ h[ptr] # <<>>
Dangles(h, ptr) == ptr # Null /\ ~Allocated(h, ptr)

\* What strlen and strdup may see at a pointer to these bytes: the text up to
\* the terminator, and if there is none in the block, whatever is behind it.
Seen(bytes) ==
  {t \in {SubSeq(bytes, 1, n) : n \in 0..Len(bytes)} :
     Len(t) < Len(bytes) /\ bytes[Len(t) + 1] = Nul /\ \A i \in DOMAIN t : t[i] # Nul}
  \union (IF \E i \in DOMAIN bytes : bytes[i] = Nul THEN {} ELSE {bytes, Append(bytes, Junk)})

\* realloc: a block of n bytes that begins with these.
Resized(bytes, n) == [i \in 1..n |-> IF i <= Len(bytes) THEN bytes[i] ELSE Junk]

Stop(how) ==
  control' = how /\ UNCHANGED <<live, members, heap, promises, stray, faults>>

\* assert(m_length <= m_capacity), with which every method begins.
Method(o, Body) == IF m_length[o] <= m_capacity[o] THEN Body ELSE Stop("aborted")

-------------------------------------------------------------------------------
(* The class. *)

SetMembers(o, ptr, len, cap) ==
  /\ m_string' = [m_string EXCEPT ![o] = ptr]
  /\ m_length' = [m_length EXCEPT ![o] = len]
  /\ m_capacity' = [m_capacity EXCEPT ![o] = cap]

Promise(o, text) == value' = [value EXCEPT ![o] = text] /\ known' = known \union {o}
NoPromise(o) == value' = [value EXCEPT ![o] = <<>>] /\ known' = known \ {o}

\* The heap after release().
Released(o) ==
  IF m_string[o] \in Blocks THEN [heap EXCEPT ![m_string[o]] = <<>>] ELSE heap

DupWithoutNul(h, b, text) == [h EXCEPT ![b] = IF text = <<>> THEN <<Junk>> ELSE text]  \* fault
\* strdup into block b.
Dup(h, b, text) == [h EXCEPT ![b] = Append(text, Nul)]

Construct(o, text) ==
  /\ o \notin live /\ live' = live \union {o}
  /\ \/ \E b \in Free(heap) :
          /\ heap' = Dup(heap, b, text)
          /\ SetMembers(o, b, Len(text), Len(text))
          /\ Promise(o, text) /\ UNCHANGED faults
     \/ /\ SetMembers(o, Null, Len(text), Len(text))
        /\ faults' = faults \union {"memory"}
        /\ NoPromise(o) /\ UNCHANGED heap
  /\ UNCHANGED <<control, stray>>

\* release() has left h; then *this becomes a copy of p's text.
CopyFrom(o, p, h, len, cap) ==
  IF ~Allocated(h, m_string[p]) THEN Stop("crashed")
  ELSE /\ \/ \E b \in Free(h), text \in Seen(h[m_string[p]]) :
               /\ heap' = Dup(h, b, text)
               /\ SetMembers(o, b, Len(text), Len(text))
               /\ IF p \in known /\ text = value[p] THEN Promise(o, text) ELSE NoPromise(o)
               /\ UNCHANGED faults
          \/ /\ heap' = h
             /\ SetMembers(o, Null, len, cap)
             /\ faults' = faults \union {"memory"} /\ NoPromise(o)
       /\ live' = live \union {o}
       /\ UNCHANGED <<control, stray>>

CopyConstruct(o, p) ==
  /\ o \notin live /\ p \in live
  /\ CopyFrom(o, p, heap, 0, 0)

CopyAssign(o, p) ==
  /\ o \in live /\ p \in live /\ o # p
  /\ Method(o,
       IF Dangles(heap, m_string[o]) THEN Stop("crashed")
       ELSE IF m_string[o] = Null THEN CopyFrom(o, p, heap, m_length[o], m_capacity[o])
       ELSE CopyFrom(o, p, Released(o), 0, 0))

TakesPointer(f, o, p) == [f EXCEPT ![o] = f[p]]     \* fault: a copy and no swap
Swapped(f, o, p) == [f EXCEPT ![o] = f[p], ![p] = f[o]]

MoveAssign(o, p) ==
  /\ o \in live /\ p \in live /\ o # p
  /\ Method(o,
       /\ m_string' = Swapped(m_string, o, p)
       /\ m_length' = Swapped(m_length, o, p)
       /\ m_capacity' = Swapped(m_capacity, o, p)
       /\ value' = [value EXCEPT ![o] = value[p], ![p] = value[o]]
       /\ known' = {x \in live : CASE x = o -> p \in known
                                   [] x = p -> o \in known
                                   [] OTHER -> x \in known}
       /\ UNCHANGED <<live, heap, control, stray, faults>>)

\* String(String&&) swaps with members it has not initialised.
MoveConstruct(o, p) ==
  /\ o \notin live /\ p \in live
  /\ \E g \in Garbage :
       IF g.m_length > g.m_capacity
         THEN /\ control' = "aborted" /\ faults' = faults \union {"moved"}
              /\ UNCHANGED <<live, members, heap, promises, stray>>
         ELSE /\ m_string' = [m_string EXCEPT ![o] = m_string[p], ![p] = g.m_string]
              /\ m_length' = [m_length EXCEPT ![o] = m_length[p], ![p] = g.m_length]
              /\ m_capacity' = [m_capacity EXCEPT ![o] = m_capacity[p], ![p] = g.m_capacity]
              /\ value' = [value EXCEPT ![o] = value[p], ![p] = <<>>]
              /\ known' = (known \ {p}) \union (IF p \in known THEN {o} ELSE {})
              /\ live' = live \union {o}
              /\ faults' = faults \union {"moved"}
                            \union (IF g.m_string \in Blocks THEN {"garbage"} ELSE {})
              /\ UNCHANGED <<heap, control, stray>>

\* The object's storage is as good as empty afterwards.
Destroy(o) ==
  /\ o \in live
  /\ Method(o,
       IF Dangles(heap, m_string[o]) THEN Stop("crashed")
       ELSE /\ heap' = Released(o)
            /\ SetMembers(o, Null, 0, 0)
            /\ live' = live \ {o} /\ NoPromise(o)
            /\ UNCHANGED <<control, stray, faults>>)

GrowsLate(len, cap) == len > cap            \* fault: one character too late
MustGrow(len, cap) == len >= cap

GrowsByThird(cap) == (cap * 4) \div 3        \* fault: nothing is added to a small capacity
NewCapacity(cap) == Extra + (cap * 4) \div 3

\* m_string[m_length++] = c; m_string[m_length] = 0; in a block of these bytes.
Put(bytes, len, c) ==
  [i \in DOMAIN bytes |-> CASE i = len + 1 -> c [] i = len + 2 -> Nul [] OTHER -> bytes[i]]
Behind(bytes, len) == {i - Len(bytes) : i \in {j \in {len + 1, len + 2} : j > Len(bytes)}}

\* The character goes into block b, which holds these bytes; h is the heap
\* without that block.
PutChar(o, c, h, b, bytes, cap) ==
  /\ heap' = [h EXCEPT ![b] = Put(bytes, m_length[o], c)]
  /\ stray' = stray \union Behind(bytes, m_length[o])
  /\ SetMembers(o, b, m_length[o] + 1, cap)
  /\ value' = [value EXCEPT ![o] = IF o \in known THEN Append(@, c) ELSE @]
  /\ UNCHANGED <<live, control, known, faults>>

PlusChar(o, c) ==
  /\ o \in live /\ m_length[o] < MaxLength
  /\ Method(o,
       IF Dangles(heap, m_string[o]) THEN Stop("crashed")
       ELSE IF MustGrow(m_length[o], m_capacity[o])
       THEN LET old == IF m_string[o] = Null THEN <<>> ELSE heap[m_string[o]]
                cap == NewCapacity(m_capacity[o])
            IN \/ \E b \in Free(Released(o)) :
                    PutChar(o, c, Released(o), b, Resized(old, cap), cap)
               \/ /\ control' = "aborted"           \* assert(grew)
                  /\ faults' = faults \union {"memory"}
                  /\ UNCHANGED <<live, members, heap, promises, stray>>
       ELSE IF m_string[o] = Null THEN Stop("crashed")
       ELSE PutChar(o, c, heap, m_string[o], heap[m_string[o]], m_capacity[o]))

-------------------------------------------------------------------------------
(* The comparisons, which change nothing. *)

\* The i-th byte of the string, as far as its block goes.
CharAt(o, i) == heap[m_string[o]][i]

\* strncmp over the first n bytes: the same up to n or up to a terminator.
SameBytes(o, p, n) ==
  \E k \in 0..n :
    /\ \A i \in 1..k : CharAt(o, i) = CharAt(p, i)
    /\ k = n \/ (k > 0 /\ CharAt(o, k) = Nul)

Equals(o, p) == m_length[o] = m_length[p] /\ SameBytes(o, p, m_length[o])

\* fault: only as much as there is of the string is compared
PrefixUnbounded(o, prefix) ==
  SameBytes(o, prefix, IF m_length[o] < m_length[prefix] THEN m_length[o] ELSE m_length[prefix])
StartsWith(o, prefix) ==
  m_length[prefix] <= m_length[o] /\ SameBytes(o, prefix, m_length[prefix])

-------------------------------------------------------------------------------

StringInit ==
  /\ live = {} /\ heap = [b \in Blocks |-> <<>>]
  /\ m_string = [o \in Objects |-> Null]
  /\ m_length = [o \in Objects |-> 0] /\ m_capacity = [o \in Objects |-> 0]
  /\ control = "running"
  /\ value = [o \in Objects |-> <<>>] /\ known = {}
  /\ stray = {} /\ faults = {}

StringNext ==
  /\ control = "running"
  /\ \E o \in Objects :
       \/ \E text \in Texts : Construct(o, text)
       \/ \E p \in Objects : \/ CopyConstruct(o, p) \/ MoveConstruct(o, p)
                             \/ CopyAssign(o, p) \/ MoveAssign(o, p)
       \/ \E c \in Chars : PlusChar(o, c)
       \/ Destroy(o)

StringSpec == StringInit /\ [][StringNext]_stringVars

-------------------------------------------------------------------------------
(* Properties. *)

\* Every variable keeps its range, and every length is within its capacity, as
\* every method asserts when it begins and when it ends.
StringTypeOK ==
  /\ live \subseteq Objects /\ known \subseteq live
  /\ m_string \in [Objects -> Blocks \union {Null, Wild}]
  /\ m_length \in [Objects -> Nat] /\ m_capacity \in [Objects -> Nat]
  /\ heap \in [Blocks -> Seq(Chars \union {Nul, Junk})]
  /\ control \in {"running", "aborted", "crashed"}
  /\ value \in [Objects -> Seq(Chars \union {Junk})]
  /\ \A o \in live : m_length[o] <= m_capacity[o]
  /\ stray \subseteq Nat /\ faults \subseteq {"memory", "moved", "garbage"}

\* No construction by a move has left a string with the address of a block that it
\* found in the storage of the new object.
Intact == "garbage" \notin faults

Owned ==
  /\ \A b \in Blocks \ Free(heap) : \E o \in live : m_string[o] = b
  /\ \A o \in live : m_string[o] \in Blocks => m_string[o] \notin Free(heap)
  /\ \A o, p \in live : o # p /\ m_string[o] \in Blocks => m_string[o] # m_string[p]

\* While the strings are intact, every block in use is owned by exactly one string,
\* and no string points to a block that was freed: no leak, no double free, nothing
\* shared, whatever is copied, swapped and moved in which order.
OneOwner == Intact => Owned

\* While the strings are intact, each holds the text that was put into it, its
\* length, and, unless the text fills its block, its terminator.
ValueKept ==
  Intact => \A o \in known :
    /\ m_string[o] \in Blocks /\ m_length[o] = Len(value[o])
    /\ \A i \in 1..m_length[o] : CharAt(o, i) = value[o][i]
    /\ \/ m_length[o] = Len(heap[m_string[o]])
       \/ CharAt(o, m_length[o] + 1) = Nul

\* While the strings are intact, the only byte that += writes outside its string's
\* block is a terminator directly behind it: grow() makes room for the character
\* alone.
StrayByteIsTerminator == Intact => stray \subseteq {1}

\* No assert fails and no pointer to nothing is used unless memory ran out or
\* an object was constructed by a move.
StopsOnlyAfterFault == control # "running" => faults # {}

\* While the strings are intact, comparisons compare the texts.
ComparisonsAgree ==
  Intact => \A o, p \in known :
    /\ Equals(o, p) <=> value[o] = value[p]
    /\ StartsWith(o, p) <=> /\ Len(value[p]) <= Len(value[o])
                            /\ SubSeq(value[o], 1, Len(value[p])) = value[p]
===============================================================================
