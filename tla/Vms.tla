--------------------------------- MODULE Vms ---------------------------------
(***************************************************************************)
(* The virtual memory simulator of vms/src: physical pages (pages.c),      *)
(* three-level page tables (page_table.c, pte.c), the MMU (mmu.c), and the *)
(* two forks with the page fault handler of copy-on-write (vms.c).         *)
(*                                                                         *)
(* The library has one thread, so a call is one action.  A physical page   *)
(* is its index.  Its bytes are seen as page-table entries and as ints;    *)
(* the model keeps both views, since memset and memcpy act on both.  A     *)
(* page number in an entry is the index of the page it leads to.  Running  *)
(* out of pages and a fatal page fault end the process (exit(ENOMEM),      *)
(* exit(EFAULT)).                                                          *)
(***************************************************************************)
EXTENDS Integers, Sequences, FiniteSets, SequencesExt

CONSTANTS
  MAX_PAGES,
  NUM_PTE_ENTRIES,    \* 512 in the code
  VirtualAddresses,   \* the addresses the client uses: <<l2, l1, l0>> indices
  Offsets,            \* the ints of a page that the client uses
  Values,             \* the ints it writes
  MapModes,           \* address -> the <<read, write>> permissions it is
                      \* mapped with
  UnmappedLater,      \* the addresses it unmaps again
  MAX_NEW_ROOTS,      \* bound of the model: the client builds an address
                      \* space from scratch while it has fewer than these
  MAX_ROOTS           \* bound of the model: address spaces ever created

Pages == 0..(MAX_PAGES - 1)
Indices == 0..(NUM_PTE_ENTRIES - 1)

ASSUME ConstantsAssumption ==
  /\ MAX_PAGES \in Nat \ {0}
  /\ NUM_PTE_ENTRIES \in Nat \ {0}
  /\ VirtualAddresses \subseteq Indices \X Indices \X Indices
  /\ Values \subseteq Int
  /\ MapModes \in [VirtualAddresses -> SUBSET (BOOLEAN \X BOOLEAN)]
  /\ UnmappedLater \subseteq VirtualAddresses
  /\ MAX_NEW_ROOTS \in Nat
  /\ MAX_ROOTS \in Nat

VARIABLES
  allocated,         \* the pages in use
  ref_track,         \* page -> mappings of it besides the first
  memory,            \* page -> its content
  root_page_table,
  roots,             \* the root page tables that the client holds
  got,               \* what the last vms_read returned
  process            \* "running", or how the process ended

vars == <<allocated, ref_track, memory, root_page_table, roots, got, process>>

NONE == -1
Flags == {"valid", "read", "write", "custom"}
PTE == [flags : SUBSET Flags, ppn : Pages]
ZeroPTE == [flags |-> {}, ppn |-> 0]
ZeroPage == [pte |-> [i \in Indices |-> ZeroPTE], ints |-> [o \in Offsets |-> 0]]

Init ==
  /\ allocated = {}
  /\ ref_track = [p \in Pages |-> 0]
  /\ memory = [p \in Pages |-> ZeroPage]
  /\ root_page_table = NONE
  /\ roots = {}
  /\ got = 0
  /\ process = "running"

Running == process = "running"

(* exit(status), whatever the call had done to the simulated memory.       *)
Exits(status) ==
  /\ process' = status
  /\ UNCHANGED <<allocated, ref_track, memory, root_page_table, roots, got>>

-----------------------------------------------------------------------------
(* pages.c *)

Free == Pages \ allocated

(* The page that the (n + 1)-st call of vms_new_page from here returns:    *)
(* each takes the first free page.                                         *)
NewPage(n) ==
  CHOOSE p \in Free : Cardinality({q \in Free : q < p}) = n

-----------------------------------------------------------------------------
(* page_table.c: a path is the indices that lead from a root to a page.    *)
(* The page at <<i, j, k>> holds data; those at shorter paths are tables.  *)

PTEOf(page, i) == memory[page].pte[i]
Has(e, flag) == flag \in e.flags
Leaf(page, v) == PTEOf(page, v[3])

PageAt(root, path) ==
  LET l1 == PTEOf(root, path[1]).ppn
      l0 == PTEOf(l1, path[2]).ppn
  IN CASE Len(path) = 0 -> root
       [] Len(path) = 1 -> l1
       [] Len(path) = 2 -> l0
       [] OTHER -> PTEOf(l0, path[3]).ppn

Entries(root, table) ==
  {i \in Indices : Has(PTEOf(PageAt(root, table), i), "valid")}

(* The paths of a root, its tables' and its data pages'. *)
L1s(root) == {<<i>> : i \in Entries(root, <<>>)}
L0s(root) == UNION {{Append(p, j) : j \in Entries(root, p)} : p \in L1s(root)}
DataPaths(root) ==
  UNION {{Append(p, k) : k \in Entries(root, p)} : p \in L0s(root)}
TablePaths(root) == {<<>>} \cup L1s(root) \cup L0s(root)
Paths(root) == TablePaths(root) \cup DataPaths(root)

L0Of(root, v) == PageAt(root, <<v[1], v[2]>>)
EntryOf(root, v) == Leaf(L0Of(root, v), v)

(* v \in DataPaths(root), for one address. *)
Mapped(root, v) ==
  /\ Has(PTEOf(root, v[1]), "valid")
  /\ Has(PTEOf(PageAt(root, <<v[1]>>), v[2]), "valid")
  /\ Has(EntryOf(root, v), "valid")

-----------------------------------------------------------------------------
(* mmu.c *)

vms_set_root_page_table(root) ==
  /\ Running
  /\ root \in roots
  /\ root_page_table' = root
  /\ UNCHANGED <<allocated, ref_track, memory, roots, got, process>>

should_generate_fault(level, e) ==
  \/ ~Has(e, "valid")
  \/ level # 0 /\ (Has(e, "read") \/ Has(e, "write"))
  \/ level = 0 /\ ~Has(e, "read") /\ ~Has(e, "write")

(* The client has set a root before it reads or writes. *)
Accesses == Running /\ root_page_table \in roots

(* mmu: the walk reaches the entry of v in its last table.  Above it no    *)
(* entry has the custom bit, so the handler cannot repair a fault there.   *)
Reaches(v) ==
  LET root == root_page_table
  IN /\ ~should_generate_fault(2, PTEOf(root, v[1]))
     /\ ~should_generate_fault(1, PTEOf(PageAt(root, <<v[1]>>), v[2]))

(* What page_fault_handler leaves when entry i of table l0 gets page, with *)
(* that content, and the page it had is counted count times.               *)
Handled(l0, i, page, content, count) ==
  LET e == PTEOf(l0, i)
  IN [page |-> page,
      allocated |-> allocated \cup {page},
      memory |-> [memory EXCEPT
                    ![page] = content,
                    ![l0].pte[i] =
                      [flags |-> (e.flags \cup {"write"}) \ {"custom"},
                       ppn |-> page]],
      ref_track |-> [ref_track EXCEPT ![e.ppn] = count]]

(* Bugs of page_fault_handler that the checks look for: the counter is     *)
(* decremented before it is tested; it is not decremented at all; the new  *)
(* page is not filled; two address spaces keep writing to one page.        *)
HandlerDecrementsFirst(l0, i) ==
  LET p == PTEOf(l0, i).ppn
  IN Handled(l0, i, IF ref_track[p] = 0 THEN p ELSE NewPage(0), memory[p],
             ref_track[p] - 1)
HandlerKeepsCount(l0, i) ==
  LET p == PTEOf(l0, i).ppn
  IN Handled(l0, i, IF ref_track[p] = 0 THEN p ELSE NewPage(0), memory[p],
             ref_track[p])
HandlerForgetsCopy(l0, i) ==
  LET p == PTEOf(l0, i).ppn
  IN IF ref_track[p] = 0
     THEN Handled(l0, i, p, memory[p], 0)
     ELSE Handled(l0, i, NewPage(0), memory[NewPage(0)], ref_track[p] - 1)
HandlerSharesLast(l0, i) ==
  LET p == PTEOf(l0, i).ppn
  IN IF ref_track[p] <= 1
     THEN Handled(l0, i, p, memory[p], 0)
     ELSE Handled(l0, i, NewPage(0), memory[p], ref_track[p] - 1)

(* page_fault_handler on entry i of table l0, which has the custom bit; if *)
(* the page is shared, there is a free one.                                *)
page_fault_handler(l0, i) ==
  LET p == PTEOf(l0, i).ppn
  IN IF ref_track[p] = 0
     THEN Handled(l0, i, p, memory[p], 0)
     ELSE Handled(l0, i, NewPage(0), memory[p], ref_track[p] - 1)

(* vms_write and vms_read call the handler on a last entry that does not   *)
(* permit the access; it has an effect only on a custom one.               *)
CallsHandler(v, flag) ==
  LET e == EntryOf(root_page_table, v)
  IN /\ Reaches(v)
     /\ should_generate_fault(0, e) \/ ~Has(e, flag)
     /\ Has(e, "custom")

LacksPage(v) == ref_track[EntryOf(root_page_table, v).ppn] # 0 /\ Free = {}

vms_write(v, o, x) ==
  LET e == EntryOf(root_page_table, v)
  IN /\ Accesses
     /\ Reaches(v)
     /\ ~should_generate_fault(0, e)
     /\ Has(e, "write")
     /\ memory' = [memory EXCEPT ![e.ppn].ints[o] = x]
     /\ UNCHANGED <<allocated, ref_track, root_page_table, roots, got, process>>

vms_write_after_fault(v, o, x) ==
  LET l0 == L0Of(root_page_table, v)
      s == page_fault_handler(l0, v[3])
  IN /\ Accesses
     /\ CallsHandler(v, "write")
     /\ ~LacksPage(v)
     /\ Has(Leaf(l0, v), "valid")
     /\ memory' = [s.memory EXCEPT ![s.page].ints[o] = x]
     /\ allocated' = s.allocated
     /\ ref_track' = s.ref_track
     /\ UNCHANGED <<root_page_table, roots, got, process>>

vms_read(v, o) ==
  LET e == EntryOf(root_page_table, v)
  IN /\ Accesses
     /\ Reaches(v)
     /\ ~should_generate_fault(0, e)
     /\ Has(e, "read")
     /\ got' = memory[e.ppn].ints[o]
     /\ UNCHANGED <<allocated, ref_track, memory, root_page_table, roots, process>>

(* vms_new_page inside the handler ends the process. *)
access_no_memory(v, flag) ==
  /\ Accesses
  /\ CallsHandler(v, flag)
  /\ LacksPage(v)
  /\ Exits("ENOMEM")

(* The handler, if it was called, has not made the access legal: it gives  *)
(* a custom entry the write bit, and never the read or the valid bit.      *)
access_fatal(v, flag) ==
  LET e == EntryOf(root_page_table, v)
      repaired == flag = "write" /\ CallsHandler(v, flag) /\ Has(e, "valid")
  IN /\ Accesses
     /\ ~(Reaches(v) /\ ~should_generate_fault(0, e) /\ Has(e, flag))
     /\ ~(CallsHandler(v, flag) /\ LacksPage(v))
     /\ ~repaired
     /\ Exits("EFAULT")

-----------------------------------------------------------------------------
(* vms.c: copy walks the tree in preorder and takes a new page for every   *)
(* table, and in mode DEFAULT for every data page.                         *)

(* Whether copy meets path p before path q. *)
Before(p, q) ==
  \/ IsStrictPrefix(p, q)
  \/ \E n \in 1..Len(p) :
       /\ n <= Len(q)
       /\ SubSeq(p, 1, n - 1) = SubSeq(q, 1, n - 1)
       /\ p[n] < q[n]

Duplicated(mode) ==
  IF mode = "DEFAULT" THEN Paths(root_page_table)
                      ELSE TablePaths(root_page_table)

Duplicate(mode) ==
  [p \in Duplicated(mode) |->
     NewPage(Cardinality({q \in Duplicated(mode) : Before(q, p)}))]

(* A last entry that copy shares, or that is already shared. *)
Shares(mode, e) ==
  /\ mode = "COW"
  /\ Has(e, "valid")
  /\ Has(e, "write") \/ Has(e, "custom")

AfterSharing(mode, e) ==
  IF Shares(mode, e)
  THEN [e EXCEPT !.flags = (e.flags \ {"write"}) \cup {"custom"}]
  ELSE e

Table(entries) == [ZeroPage EXCEPT !.pte = entries]

(* A bug: copy changes the entries of the new table only. *)
OriginalTableUntouched(mode, p) == memory[PageAt(root_page_table, p)]

(* The table at path p after copy, and its duplicate: an entry that leads  *)
(* to a duplicated page leads to the duplicate there, an invalid one is 0. *)
OriginalTable(mode, p) ==
  LET page == PageAt(root_page_table, p)
  IN IF Len(p) < 2 THEN memory[page]
     ELSE [memory[page] EXCEPT !.pte =
             [i \in Indices |-> AfterSharing(mode, PTEOf(page, i))]]

(* A bug: a copied table keeps the page numbers of the original. *)
ForkedTableKeepsPPN(mode, p) ==
  Table([i \in Indices |->
    IF i \in Entries(root_page_table, p) THEN OriginalTable(mode, p).pte[i]
                                         ELSE ZeroPTE])

ForkedTable(mode, p) ==
  LET original == OriginalTable(mode, p)
      dup == Duplicate(mode)
  IN Table([i \in Indices |->
       IF i \notin Entries(root_page_table, p) THEN ZeroPTE
       ELSE IF Append(p, i) \in DOMAIN dup
       THEN [original.pte[i] EXCEPT !.ppn = dup[Append(p, i)]]
       ELSE original.pte[i]])

CopiedMemory(mode) ==
  LET root == root_page_table
      dup == Duplicate(mode)
      forked == [p \in DOMAIN dup |->
                   IF Len(p) = 3 THEN memory[PageAt(root, p)]
                                 ELSE ForkedTable(mode, p)]
  IN [page \in Pages |->
        LET new == {p \in DOMAIN dup : dup[p] = page}
            old == {p \in TablePaths(root) : PageAt(root, p) = page}
        IN IF new # {} THEN forked[CHOOSE p \in new : TRUE]
           ELSE IF old # {} THEN OriginalTable(mode, CHOOSE p \in old : TRUE)
           ELSE memory[page]]

CopiedRefTrack(mode) ==
  LET root == root_page_table
  IN [page \in Pages |->
        ref_track[page] +
          Cardinality({p \in DataPaths(root) :
            /\ PageAt(root, p) = page
            /\ Shares(mode, EntryOf(root, p))})]

copy(mode) ==
  /\ Accesses
  /\ Cardinality(roots) < MAX_ROOTS
  /\ Cardinality(Duplicated(mode)) <= Cardinality(Free)
  /\ allocated' = allocated \cup Range(Duplicate(mode))
  /\ memory' = CopiedMemory(mode)
  /\ ref_track' = CopiedRefTrack(mode)
  /\ roots' = roots \cup {Duplicate(mode)[<<>>]}
  /\ UNCHANGED <<root_page_table, got, process>>

copy_no_memory(mode) ==
  /\ Accesses
  /\ Cardinality(roots) < MAX_ROOTS
  /\ Cardinality(Duplicated(mode)) > Cardinality(Free)
  /\ Exits("ENOMEM")

vms_fork_copy == copy("DEFAULT")
vms_fork_copy_on_write == copy("COW")

-----------------------------------------------------------------------------
(* The client builds its address spaces as the tests do (tests/cow-1.c):   *)
(* it takes zeroed pages from vms_new_page and writes the entries itself.  *)
(* It maps no page twice, sets neither the permissions of an entry above   *)
(* the last level nor the custom bit, and frees only a page that one entry *)
(* maps, clearing the entry.                                               *)

client_new_root ==
  /\ Running
  /\ Cardinality(roots) < MAX_NEW_ROOTS
  /\ IF Free = {}
     THEN Exits("ENOMEM")
     ELSE /\ allocated' = allocated \cup {NewPage(0)}
          /\ roots' = roots \cup {NewPage(0)}
          /\ UNCHANGED <<ref_track, memory, root_page_table, got, process>>

(* The pages on the way to v that root lacks. *)
Missing(root, v) ==
  {SubSeq(v, 1, n) : n \in 1..3} \ Paths(root)

client_map(root, v, mode) ==
  LET missing == Missing(root, v)
      at == [n \in 1..3 |->
               LET p == SubSeq(v, 1, n)
               IN IF p \in missing
                  THEN NewPage(Cardinality({q \in missing : Len(q) < n}))
                  ELSE PageAt(root, p)]
      leaf == [flags |-> {"valid"} \cup {f \in {"read"} : mode[1]}
                                   \cup {f \in {"write"} : mode[2]},
               ppn |-> at[3]]
      table(page) == [flags |-> {"valid"}, ppn |-> page]
  IN /\ Running
     /\ root \in roots
     /\ v \in missing
     /\ Cardinality(missing) <= Cardinality(Free)
     /\ allocated' = allocated \cup Range(at)
     /\ memory' = [memory EXCEPT ![root].pte[v[1]] = table(at[1]),
                                 ![at[1]].pte[v[2]] = table(at[2]),
                                 ![at[2]].pte[v[3]] = leaf]
     /\ UNCHANGED <<ref_track, root_page_table, roots, got, process>>

Mappings(page) ==
  {m \in roots \X VirtualAddresses :
     Mapped(m[1], m[2]) /\ PageAt(m[1], m[2]) = page}

(* A bug: vms_free_page without its memset. *)
FreedDirty(mem, page) == mem

(* vms_free_page: the page is zeroed, its ref_track stays. *)
Freed(mem, page) == [mem EXCEPT ![page] = ZeroPage]

client_unmap(root, v) ==
  LET l0 == L0Of(root, v)
      page == Leaf(l0, v).ppn
  IN /\ Running
     /\ root \in roots
     /\ v \in UnmappedLater
     /\ Mapped(root, v)
     /\ Mappings(page) = {<<root, v>>}
     /\ allocated' = allocated \ {page}
     /\ memory' = Freed([memory EXCEPT ![l0].pte[v[3]] = ZeroPTE], page)
     /\ UNCHANGED <<ref_track, root_page_table, roots, got, process>>

Halted == ~Running /\ UNCHANGED vars

Next ==
  \/ client_new_root
  \/ \E root \in roots : vms_set_root_page_table(root)
  \/ \E root \in roots, v \in VirtualAddresses :
       \/ client_unmap(root, v)
       \/ \E mode \in MapModes[v] : client_map(root, v, mode)
  \/ \E v \in VirtualAddresses, o \in Offsets :
       \/ vms_read(v, o)
       \/ \E x \in Values : vms_write(v, o, x) \/ vms_write_after_fault(v, o, x)
  \/ \E v \in VirtualAddresses, flag \in {"read", "write"} :
       access_no_memory(v, flag) \/ access_fatal(v, flag)
  \/ vms_fork_copy
  \/ vms_fork_copy_on_write
  \/ copy_no_memory("DEFAULT")
  \/ copy_no_memory("COW")
  \/ Halted

Spec == Init /\ [][Next]_vars

-----------------------------------------------------------------------------
(* Properties *)

(* Every page index, entry and counter is one that the code's types hold,  *)
(* and the counter of a page never goes below zero: at -1 the handler      *)
(* would take the page for a shared one at every later fault.              *)
TypeOK ==
  /\ allocated \subseteq Pages
  /\ ref_track \in [Pages -> 0..MAX_ROOTS]
  /\ memory \in [Pages -> [pte : [Indices -> PTE], ints : [Offsets -> Int]]]
  /\ root_page_table \in roots \cup {NONE}
  /\ roots \subseteq Pages
  /\ got \in Int
  /\ process \in {"running", "ENOMEM", "EFAULT"}

(* Mappings of page that a write may go through, at once or after a fault. *)
WritersOf(page) ==
  {m \in Mappings(page) :
     LET e == EntryOf(m[1], m[2]) IN Has(e, "write") \/ Has(e, "custom")}

(* ref_track counts the other mappings of a shared page, whatever forks,   *)
(* writes and frees came before: if it were too low, page_fault_handler    *)
(* would make a shared page writable; too high, it would copy and lose a   *)
(* page that nobody shares.                                                *)
RefTrackExact ==
  \A page \in Pages :
    LET writers == Cardinality(WritersOf(page))
    IN ref_track[page] = IF writers = 0 THEN 0 ELSE writers - 1

(* A page that some entry lets the program write is mapped by that entry   *)
(* alone, across all address spaces.                                       *)
WritableIsPrivate ==
  \A root \in roots, v \in VirtualAddresses :
    Mapped(root, v) /\ Has(EntryOf(root, v), "write") =>
      Mappings(PageAt(root, v)) = {<<root, v>>}

(* vms_new_page, copy and the handler lose no page and hand none out twice: *)
(* the pages in use are those the roots lead to, and a table is reached by *)
(* one path of one root.                                                   *)
PagesAccounted ==
  LET tables == UNION {{root} \X TablePaths(root) : root \in roots}
  IN /\ allocated = UNION {{PageAt(root, p) : p \in Paths(root)} : root \in roots}
     /\ Cardinality({PageAt(t[1], t[2]) : t \in tables}) = Cardinality(tables)

(* vms_new_page returns zeroed pages, which copy and the client rely on for *)
(* the entries they do not write.                                          *)
FreshPagesZero == \A page \in Free : memory[page] = ZeroPage

(* What the address spaces hold. *)
SpaceOf(root) ==
  [v \in VirtualAddresses |->
     IF Mapped(root, v)
     THEN LET e == EntryOf(root, v)
          IN [readable |-> Has(e, "read"),
              writable |-> Has(e, "write") \/ Has(e, "custom"),
              ints |-> memory[e.ppn].ints]
     ELSE [readable |-> FALSE, writable |-> FALSE, ints |-> [o \in Offsets |-> 0]]]

Held == [root \in roots |-> SpaceOf(root)]

Spaces == INSTANCE AddressSpaces WITH
  Names <- Pages, Zero <- 0, current <- root_page_table, spaces <- Held

(* Under any sequence of maps, forks of both kinds, writes and frees, each *)
(* space behaves as private memory: sharing and page faults do not show.   *)
ImplementsSpaces == Spaces!Spec
==============================================================================
