------------------------------ MODULE MemoryPool ------------------------------
(***************************************************************************)
(* The memory pool (src/memory/MemoryPool.cc): small areas are cut from a  *)
(* list of pages, each with a SmallNode in front, and a page is reused as  *)
(* a whole when its count of references is back at zero; large areas are   *)
(* blocks of their own, listed by LargeNodes which live in small areas.    *)
(*                                                                         *)
(* The pool belongs to one thread.  A page is its index in the list (the   *)
(* first one also holds the Pool) and an address in it is an offset; what  *)
(* posix_memalign() returns is aligned and disjoint from everything else.  *)
(* The code does not set quote_ of a page, failed_ of later pages and      *)
(* next_ of the first: their first values are choices from Garbage and     *)
(* BOOLEAN.  A user frees what it was given, once, and stops using it.     *)
(* destroyPool() reads next_ of pages it has freed: what it finds there is *)
(* a choice too.                                                           *)
(***************************************************************************)
EXTENDS Integers, Sequences, FiniteSetsExt

CONSTANTS
  PAGE_SIZE, MP_ALIGNMENT,                          \* MemoryPool.h
  SizeofPool, SizeofSmallNode, SizeofLargeNode,
  MaxProbe,   \* LargeNodes looked at by mallocLargeNode() (5)
  MaxFailed,  \* failures after which a page is skipped (5)
  Width,      \* bits of an unsigned int
  Garbage,    \* what quote_ and failed_ may hold when nobody has set them
  Sizes,      \* the sizes asked for
  MaxPages, MaxAreas, MaxLarge,   \* bounds: pages, small areas of the user, large blocks
  MaxNodes                        \* bound: LargeNodes

ASSUME MemoryAssumption ==
  /\ SizeofPool \in Nat \ {0} /\ SizeofSmallNode \in Nat \ {0}
  /\ SizeofLargeNode \in Nat \ {0}
  /\ PAGE_SIZE \in Nat /\ Width \in Nat
  /\ MP_ALIGNMENT \in Nat \ {0} /\ PAGE_SIZE % MP_ALIGNMENT = 0
  /\ PAGE_SIZE \div MP_ALIGNMENT < 2^Width
  /\ SizeofSmallNode % MP_ALIGNMENT = 0
  /\ SizeofPool + SizeofSmallNode < PAGE_SIZE /\ SizeofSmallNode + SizeofLargeNode <= PAGE_SIZE
  /\ Garbage \subseteq [quote : 0 .. 2^Width - 1, failed : 0 .. 2^Width - 1]
  /\ Sizes \subseteq Nat \ {0}

Null == 0

VARIABLES
  phase,      \* "none", "failed" (createPool() got no memory), "open",
              \* "freeing" (in the loop of destroyPool()), "destroyed"
  pages,      \* the list from head_: last_ (as an offset), quote_ and failed_ of each
  wild,       \* next_ of the first page is not null, although there is no second
  current,    \* current_
  largeList,  \* largeList_: where the LargeNode is, and its address_
  large,      \* large blocks that exist
  areas,      \* small areas that the user holds
  held,       \* large blocks that the user holds
  dirty,      \* history: pages whose quote_ did not begin at zero
  shared,     \* history: pages of which bytes in use were handed out again
  fault,      \* "null", "wild", "freed": such a pointer was followed (undefined
              \* from there)
  left,       \* destroyPool(): pages that are not given back to the system yet
  cur,        \* destroyPool(): cur
  misread     \* history: a freed page's next_ was not what it had been

freeingVars == <<left, cur, misread>>
memoryVars == <<phase, pages, wild, current, largeList, large, areas, held, dirty,
          shared, fault, freeingVars>>

MemoryInit ==
  /\ phase = "none" /\ pages = <<>> /\ wild = FALSE /\ current = 1
  /\ largeList = <<>> /\ large = {} /\ areas = {} /\ held = {} /\ dirty = {}
  /\ shared = {} /\ fault = "none"
  /\ left = {} /\ cur = Null /\ misread = FALSE

-----------------------------------------------------------------------------
(* Offsets and counts.                                                     *)

mp_align(n) == ((n + MP_ALIGNMENT - 1) \div MP_ALIGNMENT) * MP_ALIGNMENT
Wrap(n) == n % 2^Width                    \* unsigned int

\* Where last_ of an empty page is.
Start(i) == IF i = 1 THEN SizeofPool + SizeofSmallNode ELSE SizeofSmallNode
EmptyPage(i) == [last |-> Start(i), quote |-> 0, failed |-> 0]

Area(i, at, size) == [page |-> i, from |-> at, to |-> at + size]
Overlap(a, b) == a.page = b.page /\ a.from < b.to /\ b.from < a.to
LargeNodes == {Area(largeList[k].page, largeList[k].at, SizeofLargeNode)
                 : k \in DOMAIN largeList}
Areas == areas \cup LargeNodes       \* all that is in use

\* The pages, from current_ on, in which size bytes are left.
HasRoom(i, size) == PAGE_SIZE - mp_align(pages[i].last) >= size
Fitting(size) == {i \in current .. Len(pages) : HasRoom(i, size)}

-----------------------------------------------------------------------------
(* malloc() of a small size: what it returns and what it does to the list. *)

NoMemory == [page |-> Null, at |-> 0, pages |-> pages, current |-> current, dirty |-> dirty]

InPage(i, size) ==
  LET at == mp_align(pages[i].last)
  IN [page |-> i, at |-> at, current |-> current, dirty |-> dirty,
      pages |-> [pages EXCEPT ![i].last = at + size, ![i].quote = Wrap(@ + 1)]]

\* mallocSmallNode(): a page is added at the end; those passed on the way there
\* have failed once more, and current_ moves behind the last of them that has
\* failed too often.
Passed == current .. Len(pages) - 1
Skipped == {i \in Passed : pages[i].failed >= MaxFailed}

InNewPage(size, g) ==
  LET at == mp_align(SizeofSmallNode)
      old == [i \in DOMAIN pages |->
                IF i \in Passed THEN [pages[i] EXCEPT !.failed = Wrap(@ + 1)] ELSE pages[i]]
      n == Len(pages) + 1
  IN [page |-> n, at |-> at,
      pages |-> Append(old, [last |-> at + size, quote |-> Wrap(g.quote + 1),
                             failed |-> g.failed]),
      current |-> IF Skipped = {} THEN current ELSE Max(Skipped) + 1,
      dirty |-> IF g.quote = 0 THEN dirty ELSE dirty \cup {n}]

\* The outcomes; posix_memalign() may fail.
SmallOutcomes(size) ==
  IF Fitting(size) # {} THEN {InPage(Min(Fitting(size)), size)}
  ELSE {NoMemory} \cup
       (IF Len(pages) < MaxPages
        THEN {InNewPage(size, g) : g \in Garbage} ELSE {})

TakeOutcome(r, size) ==
  /\ pages' = r.pages /\ current' = r.current /\ dirty' = r.dirty
  /\ shared' = IF \E a \in Areas : Overlap(a, Area(r.page, r.at, size))
               THEN shared \cup {r.page} ELSE shared

\* The walk over the list comes to its end, where next_ was never set.
WalksOff(size) == wild /\ Fitting(size) = {}

-----------------------------------------------------------------------------
(* The operations.                                                         *)

createPool ==
  /\ phase \in {"none", "failed"}
  /\ phase' = "open"
  /\ \E g \in Garbage : /\ pages' = <<[EmptyPage(1) EXCEPT !.quote = g.quote]>>
                        /\ dirty' = IF g.quote = 0 THEN {} ELSE {1}
  /\ wild' \in BOOLEAN
  /\ current' = 1
  /\ UNCHANGED <<largeList, large, areas, held, shared, fault, freeingVars>>

\* posix_memalign() fails: pool_ stays null, and only getPool() would tell.
createPoolFails ==
  /\ phase \in {"none", "failed"}
  /\ phase' = "failed"
  /\ UNCHANGED <<pages, wild, current, largeList, large, areas, held, dirty, shared,
                 fault, freeingVars>>

isLarge(size) == size > PAGE_SIZE - SizeofSmallNode

mallocSmall(size) ==
  /\ phase = "open" /\ ~isLarge(size)
  /\ ~WalksOff(size)
  /\ Cardinality(areas) < MaxAreas
  /\ \E r \in SmallOutcomes(size) :
       /\ TakeOutcome(r, size)
       /\ areas' = IF r.page = Null THEN areas
                   ELSE areas \cup {Area(r.page, r.at, size)}
  /\ UNCHANGED <<phase, wild, largeList, large, held, fault, freeingVars>>

\* Free LargeNodes among the first ones of the list.
FreeNodesMutant == {k \in DOMAIN largeList : k <= MaxProbe}
FreeNodes == {k \in DOMAIN largeList : k <= MaxProbe /\ largeList[k].address = Null}

\* mallocLargeNode(): b is the new block.  It is given back if there is no
\* memory for a LargeNode.
ReuseLargeNode(b) ==
  /\ FreeNodes # {}
  /\ largeList' = [largeList EXCEPT ![Min(FreeNodes)].address = b]
  /\ large' = large \cup {b} /\ held' = held \cup {b}
  /\ UNCHANGED <<pages, current, dirty, shared>>

NewLargeNode(b) ==
  /\ FreeNodes = {} /\ Len(largeList) < MaxNodes
  /\ ~WalksOff(SizeofLargeNode)
  /\ \E r \in SmallOutcomes(SizeofLargeNode) :
       /\ TakeOutcome(r, SizeofLargeNode)
       /\ IF r.page = Null THEN UNCHANGED <<largeList, large, held>>
          ELSE /\ largeList' = <<[page |-> r.page, at |-> r.at, address |-> b]>> \o largeList
               /\ large' = large \cup {b} /\ held' = held \cup {b}

mallocLarge(b) ==
  /\ phase = "open"
  /\ b \notin large
  /\ ReuseLargeNode(b) \/ NewLargeNode(b)
  /\ UNCHANGED <<phase, wild, areas, fault, freeingVars>>

\* freeMemory() of a small area: the page is emptied by the last one.
ResetsMutant(q) == q <= 1
Resets(q) == q = 0

freeSmall(a) ==
  /\ phase = "open" /\ a \in areas
  /\ areas' = areas \ {a}
  /\ LET i == a.page
         quote == Wrap(pages[i].quote - 1)
     IN IF Resets(quote)
        THEN pages' = [pages EXCEPT ![i] = EmptyPage(i)] /\ current' = 1
        ELSE pages' = [pages EXCEPT ![i].quote = quote] /\ UNCHANGED current
  /\ UNCHANGED <<phase, wild, largeList, large, held, dirty, shared, fault, freeingVars>>

freeLarge(b) ==
  /\ phase = "open" /\ b \in held
  /\ largeList' = [k \in DOMAIN largeList |->
                     IF largeList[k].address = b THEN [largeList[k] EXCEPT !.address = Null]
                     ELSE largeList[k]]
  /\ large' = large \ {b} /\ held' = held \ {b}
  /\ UNCHANGED <<phase, pages, wild, current, areas, dirty, shared, fault, freeingVars>>

Listed == {largeList[k].address : k \in DOMAIN largeList} \ {Null}

resetPool ==
  /\ phase = "open" /\ ~wild
  /\ large' = large \ Listed
  /\ largeList' = <<>> /\ current' = 1
  /\ pages' = [i \in DOMAIN pages |-> EmptyPage(i)]
  /\ areas' = {} /\ held' = {} /\ dirty' = {}
  /\ UNCHANGED <<phase, wild, shared, fault, freeingVars>>

\* destroyPool() frees the large blocks, then the pages behind the first one by one,
\* and the first, which is the Pool itself, last.
destroyPool ==
  /\ phase = "open" /\ ~wild
  /\ phase' = "freeing"
  /\ large' = large \ Listed
  /\ left' = DOMAIN pages
  /\ cur' = IF Len(pages) > 1 THEN 2 ELSE Null
  /\ largeList' = <<>> /\ pages' = <<>> /\ areas' = {} /\ held' = {} /\ dirty' = {}
  /\ UNCHANGED <<wild, current, shared, fault, misread>>

\* free(cur), and then cur = cur->next_, a read of freed memory: the value may still
\* be there, be null, so that the loop ends early, or lead anywhere.
FreePage ==
  /\ phase = "freeing" /\ cur # Null
  /\ left' = left \ {cur}
  /\ LET next == IF cur + 1 \in left THEN cur + 1 ELSE Null
     IN \/ cur' = next /\ UNCHANGED <<misread, fault>>
        \/ next # Null /\ cur' = Null /\ misread' = TRUE /\ UNCHANGED fault
        \/ fault' = "freed" /\ misread' = TRUE /\ UNCHANGED cur
  /\ UNCHANGED <<phase, pages, wild, current, largeList, large, areas, held, dirty, shared>>

FreePool ==
  /\ phase = "freeing" /\ cur = Null
  /\ phase' = "destroyed"
  /\ left' = left \ {1}
  /\ UNCHANGED <<pages, wild, current, largeList, large, areas, held, dirty, shared,
                 fault, cur, misread>>

\* An operation that follows the next_ that was never set, or pool_ when there is no
\* pool.
FollowWild ==
  /\ \/ phase = "open" /\ wild /\ fault' = "wild"
     \/ phase = "failed" /\ fault' = "null"
  /\ UNCHANGED <<phase, pages, wild, current, largeList, large, areas, held, dirty, shared,
                 freeingVars>>

-----------------------------------------------------------------------------
\* Which free block posix_memalign() returns makes no difference.
NewBlocks == LET free == 1 .. MaxLarge \ large
             IN IF free = {} THEN {} ELSE {Min(free)}

\* Two owners that write to the same bytes, or a pointer that leads nowhere:
\* anything may happen from there on.
MemoryNext ==
  /\ fault = "none" /\ shared = {}
  /\ \/ createPool \/ createPoolFails \/ resetPool \/ FollowWild
     \/ destroyPool \/ FreePage \/ FreePool
     \/ \E size \in Sizes : mallocSmall(size)
     \/ \E size \in Sizes, b \in NewBlocks : isLarge(size) /\ mallocLarge(b)
     \/ \E a \in areas : freeSmall(a)
     \/ \E b \in held : freeLarge(b)

MemorySpec == MemoryInit /\ [][MemoryNext]_memoryVars

-----------------------------------------------------------------------------
(* Properties.                                                             *)

MemoryTypeOK ==
  /\ phase \in {"none", "failed", "open", "freeing", "destroyed"}
  /\ pages \in Seq([last : 0 .. PAGE_SIZE, quote : 0 .. 2^Width - 1,
                    failed : 0 .. 2^Width - 1])
  /\ wild \in BOOLEAN /\ current \in 1 .. MaxPages
  /\ largeList \in Seq([page : 1 .. MaxPages, at : 0 .. PAGE_SIZE,
                        address : 0 .. MaxLarge])
  /\ large \subseteq 1 .. MaxLarge /\ held \subseteq 1 .. MaxLarge
  /\ areas \subseteq [page : 1 .. MaxPages,
                      from : 0 .. PAGE_SIZE, to : 0 .. PAGE_SIZE]
  /\ dirty \subseteq 1 .. MaxPages /\ shared \subseteq 1 .. MaxPages
  /\ fault \in {"none", "null", "wild", "freed"}
  /\ left \subseteq 1 .. MaxPages /\ cur \in {Null} \cup 2 .. MaxPages /\ misread \in BOOLEAN

\* No byte has two owners: the areas of the user, those of the LargeNodes and the
\* headers of the pages are disjoint, inside their page and aligned, through all
\* sequences of malloc(), freeMemory() and resetPool(), except in a page whose
\* quote_ did not begin at zero.
AreasDisjoint ==
  /\ \A a \in Areas : /\ Start(a.page) <= a.from /\ a.to <= PAGE_SIZE
                       /\ a.from % MP_ALIGNMENT = 0
  /\ shared \subseteq dirty

\* Memory that nobody uses is available again: a page without an area is empty and
\* not skipped by malloc(), a large block exists exactly as long as the user holds
\* it and as one LargeNode lists it, and destroyPool() has freed every page when it
\* returns.  The exceptions are a page whose quote_ did not begin at zero; the first
\* page, which has less room than the others: requests that it cannot hold make it
\* fail, and current_ may leave it behind although it is empty; and a destroyPool()
\* that read a changed next_ in a page it had just freed, which loses the pages
\* behind that one.
NothingLeaks ==
  /\ large = held /\ large = Listed
  /\ \A k, l \in DOMAIN largeList :
       k # l => largeList[k].address # largeList[l].address \/ largeList[k].address = Null
  /\ \A i \in DOMAIN pages :
       (\A a \in Areas : a.page # i) =>
         i \in dirty \/ (pages[i].last = Start(i) /\ (i # 1 => current <= i))
  /\ phase = "destroyed" => large = {} /\ (left = {} \/ misread)
=============================================================================
