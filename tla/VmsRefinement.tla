---------------------------- MODULE VmsRefinement ----------------------------
(***************************************************************************)
(* Vms implements AddressSpaces, for any number of pages, entries, roots   *)
(* and addresses: neither the sharing of a copy-on-write fork nor its page *)
(* faults show.                                                            *)
(***************************************************************************)
EXTENDS VmsProofs

-----------------------------------------------------------------------------
(* What the roots R hold in memory m                                       *)

Blank == [readable |-> FALSE, writable |-> FALSE, ints |-> [o \in Offsets |-> 0]]

CellIn(m, s, u) ==
  IF In3(m, s, u[1], u[2], u[3])
  THEN [readable |-> "read" \in FlagsAt(m, s, u[1], u[2], u[3]),
        writable |-> Writes(FlagsAt(m, s, u[1], u[2], u[3])),
        ints |-> m[At3(m, s, u[1], u[2], u[3])].ints]
  ELSE Blank

HeldIn(m, R) == [s \in R |-> [u \in VirtualAddresses |-> CellIn(m, s, u)]]

LEMMA HeldIs == Held = HeldIn(memory, roots)
  <1>1. ASSUME NEW root, NEW v \in VirtualAddresses
        PROVE  SpaceOf(root)[v] = CellIn(memory, root, v)
    <2> DEFINE e == EntryOf(root, v)
    <2>1. /\ Mapped(root, v) <=> In3(memory, root, v[1], v[2], v[3])
          /\ e.ppn = At3(memory, root, v[1], v[2], v[3])
          /\ e.flags = FlagsAt(memory, root, v[1], v[2], v[3])
      BY MappedIs
    <2>2. SpaceOf(root)[v] =
            IF Mapped(root, v)
            THEN [readable |-> Has(e, "read"),
                  writable |-> Has(e, "write") \/ Has(e, "custom"),
                  ints |-> memory[e.ppn].ints]
            ELSE Blank
      BY DEF SpaceOf, Blank
    <2> HIDE DEF e
    <2>3. /\ Has(e, "read") = ("read" \in FlagsAt(memory, root, v[1], v[2], v[3]))
          /\ (Has(e, "write") \/ Has(e, "custom")) =
               Writes(FlagsAt(memory, root, v[1], v[2], v[3]))
      BY <2>1 DEF Has, Writes
    <2> QED
      BY <2>1, <2>2, <2>3 DEF CellIn
  <1>2. ASSUME NEW root
        PROVE  SpaceOf(root) = [v \in VirtualAddresses |-> CellIn(memory, root, v)]
    <2>1. SpaceOf(root) = [v \in VirtualAddresses |-> SpaceOf(root)[v]]
      BY DEF SpaceOf
    <2> QED
      BY <1>1, <2>1
  <1> QED
    BY <1>2 DEF Held, HeldIn

(* Every other cell than that of r at v is kept; or the ints of its page.  *)
OthersKept(m, m2, R, r, v) ==
  \A s \in R, u \in VirtualAddresses :
    ~(s = r /\ u = v) => CellIn(m2, s, u) = CellIn(m, s, u)

OtherIntsKept(m, m2, R, r, v) ==
  \A s \in R, u \in VirtualAddresses :
    ~(s = r /\ u = v) /\ In3(m, s, u[1], u[2], u[3]) =>
      m2[At3(m, s, u[1], u[2], u[3])].ints = m[At3(m, s, u[1], u[2], u[3])].ints

CellPut(h, h2, r, v, c) == h2 = [h EXCEPT ![r][v] = c]

(* One cell of one space changes.                                          *)
LEMMA CellChanges ==
  ASSUME NEW m, NEW m2, NEW R, NEW r \in R, NEW v \in VirtualAddresses, NEW c,
         CellIn(m2, r, v) = c, OthersKept(m, m2, R, r, v)
  PROVE  CellPut(HeldIn(m, R), HeldIn(m2, R), r, v, c)
  <1> DEFINE H == HeldIn(m, R)
             H2 == [H EXCEPT ![r] = [H[r] EXCEPT ![v] = c]]
  <1>1. /\ H = [s \in R |-> H[s]]
        /\ \A s \in R : H[s] = [u \in VirtualAddresses |-> CellIn(m, s, u)]
    BY DEF HeldIn
  <1> HIDE DEF H
  <1>2. H2[r] = [u \in VirtualAddresses |-> CellIn(m2, r, u)]
    <2>1. H2[r] = [H[r] EXCEPT ![v] = c]
      BY <1>1
    <2>2. [H[r] EXCEPT ![v] = c] = [u \in VirtualAddresses |-> IF u = v THEN c ELSE H[r][u]]
      BY <1>1
    <2>3. \A u \in VirtualAddresses :
            CellIn(m2, r, u) = IF u = v THEN c ELSE CellIn(m, r, u)
      BY DEF OthersKept
    <2> QED
      BY <1>1, <2>1, <2>2, <2>3
  <1>3. \A s \in R : s # r => H2[s] = [u \in VirtualAddresses |-> CellIn(m2, s, u)]
    <2>1. \A s \in R, u \in VirtualAddresses : s # r => CellIn(m2, s, u) = CellIn(m, s, u)
      BY DEF OthersKept
    <2> QED
      BY <1>1, <2>1
  <1>4. H2 = [s \in R |-> H2[s]]
    BY <1>1
  <1> HIDE DEF H2
  <1>5. HeldIn(m2, R) = H2
    BY <1>2, <1>3, <1>4 DEF HeldIn
  <1> QED
    BY <1>5 DEF H2, H, CellPut

(* A cell whose mapping and page are kept.                                 *)
LEMMA CellKept ==
  ASSUME NEW m, NEW m2, NEW s, NEW u,
         In3(m2, s, u[1], u[2], u[3]) <=> In3(m, s, u[1], u[2], u[3]),
         In3(m, s, u[1], u[2], u[3]) =>
           /\ "read" \in FlagsAt(m2, s, u[1], u[2], u[3]) <=>
                "read" \in FlagsAt(m, s, u[1], u[2], u[3])
           /\ Writes(FlagsAt(m2, s, u[1], u[2], u[3])) <=>
                Writes(FlagsAt(m, s, u[1], u[2], u[3]))
           /\ m2[At3(m2, s, u[1], u[2], u[3])].ints = m[At3(m, s, u[1], u[2], u[3])].ints
  PROVE  CellIn(m2, s, u) = CellIn(m, s, u)
  <1>1. ASSUME In3(m, s, u[1], u[2], u[3])
        PROVE  /\ ("read" \in FlagsAt(m2, s, u[1], u[2], u[3])) =
                    ("read" \in FlagsAt(m, s, u[1], u[2], u[3]))
               /\ Writes(FlagsAt(m2, s, u[1], u[2], u[3])) =
                    Writes(FlagsAt(m, s, u[1], u[2], u[3]))
    BY <1>1 DEF Writes
  <1> QED
    BY <1>1 DEF CellIn

-----------------------------------------------------------------------------
(* What a step does to the spaces, from what it does to the cells          *)

LEMMA HeldNext == Held' = HeldIn(memory', roots')
  <1>1. (Held = HeldIn(memory, roots))'
    BY HeldIs, PTL
  <1> QED
    BY <1>1

LEMMA HeldCells ==
  /\ DOMAIN Held = roots
  /\ DOMAIN Held' = roots'
  /\ \A s \in roots : Held[s] = [u \in VirtualAddresses |-> CellIn(memory, s, u)]
  /\ \A s \in roots, u \in VirtualAddresses : Held[s][u] = CellIn(memory, s, u)
  BY HeldIs, HeldNext DEF HeldIn

KeepsCells ==
  \A s \in roots, u \in VirtualAddresses : CellIn(memory', s, u) = CellIn(memory, s, u)

LEMMA NoneChanges ==
  ASSUME roots' = roots, KeepsCells
  PROVE  Held' = Held
  BY HeldIs, HeldNext DEF HeldIn, KeepsCells

LEMMA OneChanges ==
  ASSUME roots' = roots, NEW r \in roots, NEW v \in VirtualAddresses,
         NEW c, CellIn(memory', r, v) = c, OthersKept(memory, memory', roots, r, v)
  PROVE  Held' = [Held EXCEPT ![r][v] = c]
  <1>1. CellPut(HeldIn(memory, roots), HeldIn(memory', roots), r, v, c)
    BY CellChanges
  <1> QED
    BY <1>1, HeldIs, HeldNext DEF CellPut

LEMMA SpaceAdded ==
  ASSUME NEW p \in Pages, p \notin roots, roots' = roots \cup {p}, KeepsCells,
         NEW space, space = [u \in VirtualAddresses |-> CellIn(memory', p, u)]
  PROVE  Spaces!Add(p, space)
  <1>1. Held' = [t \in roots \cup {p} |-> IF t = p THEN space ELSE Held[t]]
    BY HeldNext, HeldCells DEF HeldIn, KeepsCells
  <1> QED
    BY <1>1, HeldCells DEF Spaces!Add, Spaces!Created

LEMMA BlankIs == Spaces!UNMAPPED = Blank
  BY DEF Spaces!UNMAPPED, Blank

(* Every page that a root maps is in use.                                  *)
LEMMA MappedInUse ==
  ASSUME NEW m, NEW R, NEW A, Forest(m, R, A), NEW s \in R, NEW i, NEW j, NEW k,
         In3(m, s, i, j, k)
  PROVE  At3(m, s, i, j, k) \in A /\ At3(m, s, i, j, k) \in Pages
  BY DEF Forest, Homes, HomesOf

(* The cells of the entries that a step does not set, if their pages keep  *)
(* their ints.                                                             *)
LEMMA OtherCellsKept ==
  ASSUME NEW m, NEW m2, NEW R, NEW r \in R, NEW v \in VirtualAddresses, NEW e,
         OneEntry(m, m2, R, r, v[1], v[2], v[3], e),
         OtherIntsKept(m, m2, R, r, v)
  PROVE  OthersKept(m, m2, R, r, v)
  <1> SUFFICES ASSUME NEW s \in R, NEW u \in VirtualAddresses, ~(s = r /\ u = v)
               PROVE  CellIn(m2, s, u) = CellIn(m, s, u)
    BY DEF OthersKept
  <1>1. ~(s = r /\ u[1] = v[1] /\ u[2] = v[2] /\ u[3] = v[3])
    BY AddressesAre, Zenon
  <1>2. /\ In3(m2, s, u[1], u[2], u[3]) <=> In3(m, s, u[1], u[2], u[3])
        /\ In3(m, s, u[1], u[2], u[3]) =>
             /\ At3(m2, s, u[1], u[2], u[3]) = At3(m, s, u[1], u[2], u[3])
             /\ FlagsAt(m2, s, u[1], u[2], u[3]) = FlagsAt(m, s, u[1], u[2], u[3])
    BY <1>1 DEF OneEntry
  <1> DEFINE f == FlagsAt(m, s, u[1], u[2], u[3])
             g == FlagsAt(m2, s, u[1], u[2], u[3])
  <1>3. In3(m, s, u[1], u[2], u[3]) =>
          /\ "read" \in g <=> "read" \in f
          /\ Writes(g) <=> Writes(f)
          /\ m2[At3(m2, s, u[1], u[2], u[3])].ints = m[At3(m, s, u[1], u[2], u[3])].ints
    BY <1>2 DEF OtherIntsKept
  <1> HIDE DEF f, g
  <1> QED
    BY <1>2, <1>3, CellKept DEF f, g

-----------------------------------------------------------------------------
(* One lemma per operation                                                 *)

LEMMA NewRootMaps ==
  ASSUME IInv, client_new_root
  PROVE  \/ Spaces!Exhausted
         \/ \E s \in Spaces!Created' \ Spaces!Created : Spaces!Create(s)
  <1>1. Running
    BY DEF client_new_root
  <1>2. CASE Free = {}
    <2>1. Exits("ENOMEM")
      BY <1>2 DEF client_new_root
    <2>2. UNCHANGED <<root_page_table, got>> /\ Held' = Held /\ process' = "ENOMEM"
      BY <2>1, HeldIs, HeldNext DEF Exits
    <2> QED
      BY <1>1, <2>2 DEF Spaces!Exhausted, Spaces!Running, Running
  <1>3. CASE Free # {}
    <2> DEFINE p == NewPage(0)
    <2>1. /\ roots' = roots \cup {p}
          /\ UNCHANGED <<memory, root_page_table, got, process>>
      BY <1>3 DEF client_new_root
    <2>2. p \in Pages \ allocated
      BY <1>3, FirstFree DEF Free
    <2> HIDE DEF p
    <2>3. \A i, j, k : ~In3(memory, p, i, j, k)
      BY <2>2, RootAdded DEF IInv
    <2>4. p \notin roots /\ p \in Pages
      BY <2>2, RootsInUse DEF IInv
    <2>5. KeepsCells
      BY <2>1 DEF KeepsCells
    <2>6. Spaces!Add(p, [v \in VirtualAddresses |-> Blank])
      <3>1. \A u : CellIn(memory', p, u) = Blank
        BY <2>1, <2>3 DEF CellIn
      <3> QED
        BY <2>1, <2>4, <2>5, <3>1, SpaceAdded
    <2>7. Spaces!Create(p)
      BY <1>1, <2>1, <2>6, BlankIs DEF Spaces!Create, Spaces!Running, Running
    <2>8. p \in Spaces!Created' \ Spaces!Created
      BY <2>1, <2>4, HeldCells DEF Spaces!Created
    <2> QED
      BY <2>7, <2>8
  <1> QED
    BY <1>2, <1>3

LEMMA MapMaps ==
  ASSUME IInv, NEW root \in roots, NEW v \in VirtualAddresses, NEW mode \in MapModes[v],
         client_map(root, v, mode)
  PROVE  Spaces!Map(root, v)
  <1> DEFINE e == MapLeaf(root, v, mode)
             c == [readable |-> mode[1], writable |-> mode[2],
                   ints |-> [o \in Offsets |-> 0]]
  <1>1. Running /\ UNCHANGED <<ref_track, root_page_table, roots, got, process>>
    BY DEF client_map
  <1>2. /\ OneEntry(memory, memory', roots, root, v[1], v[2], v[3], e)
        /\ ~In3(memory, root, v[1], v[2], v[3])
        /\ e.ppn \in Free
        /\ SameInts(memory, memory')
    BY ClientMaps DEF IInv
  <1>3. mode[1] \in BOOLEAN /\ mode[2] \in BOOLEAN
    <2>1. MapModes[v] \subseteq BOOLEAN \X BOOLEAN
      BY ConstantsAssumption DEF ConstantsAssumption
    <2> QED
      BY <2>1
  <1>4. /\ "valid" \in e.flags
        /\ ("read" \in e.flags) = mode[1]
        /\ Writes(e.flags) = mode[2]
    BY <1>3 DEF MapLeaf, Writes
  <1>5. memory'[e.ppn].ints = [o \in Offsets |-> 0]
    BY <1>2 DEF IInv, Forest, Zeroed, Free, SameInts, ZeroPage
  <1> HIDE DEF e
  <1>6. CellIn(memory', root, v) = c
    BY <1>2, <1>4, <1>5 DEF CellIn, OneEntry
  <1>7. Held[root][v] = Spaces!UNMAPPED
    BY <1>2, HeldCells, BlankIs DEF CellIn
  <1>8. Held' = [Held EXCEPT ![root][v] = c]
    <2>1. OtherIntsKept(memory, memory', roots, root, v)
      BY <1>2, MappedInUse DEF SameInts, IInv, OtherIntsKept
    <2>2. OthersKept(memory, memory', roots, root, v)
      BY <1>2, <2>1, OtherCellsKept
    <2> QED
      BY <1>1, <1>6, <2>2, OneChanges
  <1>9. c = [Spaces!UNMAPPED EXCEPT !.readable = mode[1], !.writable = mode[2]]
    <2> DEFINE d == [Spaces!UNMAPPED EXCEPT !.readable = mode[1], !.writable = mode[2]]
               C == [readable : {mode[1]}, writable : {mode[2]},
                     ints : {[o \in Offsets |-> 0]}]
    <2>1. c \in C
      OBVIOUS
    <2>2. d \in C
      BY DEF Spaces!UNMAPPED
    <2> HIDE DEF c, d
    <2>3. c = d
      BY <2>1, <2>2
    <2> QED
      BY <2>3 DEF d
  <1> HIDE DEF c
  <1> QED
    BY <1>1, <1>3, <1>7, <1>8, <1>9, HeldCells
    DEF Spaces!Map, Spaces!Running, Spaces!Created, Running

(* An address whose page was mapped without permissions and never written  *)
(* already reads as unmapped.                                              *)
LEMMA UnmapMaps ==
  ASSUME IInv, NEW root \in roots, NEW v \in VirtualAddresses, client_unmap(root, v)
  PROVE  Spaces!Unmap(root, v) \/ UNCHANGED Spaces!vars
  <1> DEFINE page == At3(memory, root, v[1], v[2], v[3])
  <1>1. Running /\ UNCHANGED <<ref_track, root_page_table, roots, got, process>>
    BY DEF client_unmap
  <1>2. /\ OneEntry(memory, memory', roots, root, v[1], v[2], v[3], ZeroPTE)
        /\ In3(memory, root, v[1], v[2], v[3])
        /\ Alone(memory, roots, root, v[1], v[2], v[3], page)
        /\ \A q \in Pages : q # page => memory'[q].ints = memory[q].ints
    BY ClientUnmaps DEF IInv
  <1>3. CellIn(memory', root, v) = Blank
    BY <1>2 DEF CellIn, OneEntry, ZeroPTE
  <1>4. ASSUME NEW s \in roots, NEW u \in VirtualAddresses, ~(s = root /\ u = v),
               In3(memory, s, u[1], u[2], u[3])
        PROVE  At3(memory, s, u[1], u[2], u[3]) # page
    <2>1. SUFFICES ASSUME At3(memory, s, u[1], u[2], u[3]) = page PROVE FALSE
      OBVIOUS
    <2>2. u = v
      BY <1>2, <1>4, <2>1, OneMapping DEF Maps, IInv
    <2> QED
      BY <1>2, <1>4, <2>1, <2>2 DEF Alone
  <1> HIDE DEF page
  <1>5. OthersKept(memory, memory', roots, root, v)
    <2>1. OtherIntsKept(memory, memory', roots, root, v)
      BY <1>2, <1>4, MappedInUse DEF IInv, OtherIntsKept
    <2> QED
      BY <1>2, <2>1, OtherCellsKept
  <1>6. Held' = [Held EXCEPT ![root][v] = Spaces!UNMAPPED]
    BY <1>1, <1>3, <1>5, OneChanges, BlankIs
  <1>7. CASE Held[root][v] = Spaces!UNMAPPED
    <2>1. KeepsCells
      BY <1>3, <1>5, <1>7, HeldCells, BlankIs DEF KeepsCells, OthersKept
    <2>2. Held' = Held
      BY <1>1, <2>1, NoneChanges
    <2> QED
      BY <1>1, <2>2 DEF Spaces!vars
  <1>8. CASE Held[root][v] # Spaces!UNMAPPED
    BY <1>1, <1>6, <1>8, HeldCells
    DEF Spaces!Unmap, Spaces!Running, Spaces!Created, Running
  <1> QED
    BY <1>7, <1>8

LEMMA SetRootMaps ==
  ASSUME NEW root, vms_set_root_page_table(root)
  PROVE  Spaces!Switch(root)
  <1>1. /\ Running /\ root \in roots /\ root_page_table' = root
        /\ UNCHANGED <<memory, roots, got, process>>
    BY DEF vms_set_root_page_table
  <1>2. Held' = Held
    BY <1>1, HeldIs, HeldNext
  <1> QED
    BY <1>1, <1>2, HeldCells DEF Spaces!Switch, Spaces!Running, Spaces!Created, Running

LEMMA ExitMaps ==
  ASSUME Running, Exits("ENOMEM")
  PROVE  Spaces!Exhausted
  <1>1. /\ process' = "ENOMEM"
        /\ UNCHANGED <<memory, roots, root_page_table, got>>
    BY DEF Exits
  <1>2. Held' = Held
    BY <1>1, HeldIs, HeldNext
  <1> QED
    BY <1>1, <1>2 DEF Spaces!Exhausted, Spaces!Running, Running

LEMMA ReadMaps ==
  ASSUME IInv, NEW v \in VirtualAddresses, NEW o \in Offsets, vms_read(v, o)
  PROVE  Spaces!Read(v, o)
  <1> DEFINE r == root_page_table
             e == EntryOf(r, v)
  <1>1. /\ Running /\ r \in roots /\ Reaches(v)
        /\ Has(e, "valid") /\ Has(e, "read")
        /\ got' = memory[e.ppn].ints[o]
        /\ UNCHANGED <<memory, root_page_table, roots, process>>
    BY DEF vms_read, Accesses, should_generate_fault
  <1>2. /\ In3(memory, r, v[1], v[2], v[3])
        /\ e.ppn = At3(memory, r, v[1], v[2], v[3])
        /\ e.flags = FlagsAt(memory, r, v[1], v[2], v[3])
    BY <1>1, AccessMapped, MappedIs
  <1> HIDE DEF e
  <1>3. CellIn(memory, r, v).readable /\ CellIn(memory, r, v).ints = memory[e.ppn].ints
    BY <1>1, <1>2 DEF CellIn, Has
  <1>4. Held' = Held /\ Held[r][v] = CellIn(memory, r, v)
    BY <1>1, HeldIs, HeldNext, HeldCells
  <1> QED
    BY <1>1, <1>3, <1>4, HeldCells
    DEF Spaces!Read, Spaces!Running, Spaces!Created, Running

IntSetTo(old, c, o, x) == c = [old EXCEPT !.ints[o] = x]

LEMMA IntPut ==
  ASSUME NEW S, NEW old \in [readable : BOOLEAN, writable : BOOLEAN, ints : S],
         NEW T, NEW c \in [readable : BOOLEAN, writable : BOOLEAN, ints : T],
         NEW o, NEW x, c.readable = old.readable, c.writable = old.writable,
         c.ints = [old.ints EXCEPT ![o] = x]
  PROVE  IntSetTo(old, c, o, x)
  <1> DEFINE d == [old EXCEPT !.ints[o] = x]
  <1>1. /\ d \in [readable : BOOLEAN, writable : BOOLEAN, ints : {c.ints}]
        /\ d.readable = old.readable /\ d.writable = old.writable /\ d.ints = c.ints
    OBVIOUS
  <1> HIDE DEF d
  <1>2. c = d
    BY <1>1
  <1> QED
    BY <1>2 DEF d, IntSetTo

(* A write goes to one cell: to its ints, where the entry permits it.      *)
LEMMA CellWritten ==
  ASSUME NEW r \in roots, r = root_page_table, NEW v \in VirtualAddresses,
         NEW o \in Offsets, NEW x, Running, UNCHANGED <<root_page_table, roots, got, process>>,
         In3(memory, r, v[1], v[2], v[3]), In3(memory', r, v[1], v[2], v[3]),
         NEW f, f = FlagsAt(memory, r, v[1], v[2], v[3]),
         NEW g, g = FlagsAt(memory', r, v[1], v[2], v[3]),
         Writes(f), Writes(g), "read" \in g <=> "read" \in f,
         memory'[At3(memory', r, v[1], v[2], v[3])].ints =
           [memory[At3(memory, r, v[1], v[2], v[3])].ints EXCEPT ![o] = x],
         OthersKept(memory, memory', roots, r, v)
  PROVE  Spaces!Write(v, o, x)
  <1> DEFINE old == CellIn(memory, r, v)
             c == CellIn(memory', r, v)
  <1>1. /\ old = [readable |-> "read" \in f, writable |-> Writes(f),
                  ints |-> memory[At3(memory, r, v[1], v[2], v[3])].ints]
        /\ c = [readable |-> "read" \in g, writable |-> Writes(g),
                ints |-> [old.ints EXCEPT ![o] = x]]
    BY DEF CellIn
  <1>2. old.writable
    BY <1>1
  <1>3. IntSetTo(old, c, o, x)
    <2>1. /\ old \in [readable : BOOLEAN, writable : BOOLEAN, ints : {old.ints}]
          /\ c \in [readable : BOOLEAN, writable : BOOLEAN, ints : {c.ints}]
      BY <1>1 DEF Writes
    <2>2. c.readable = old.readable /\ c.writable = old.writable
      BY <1>1 DEF Writes
    <2>3. c.ints = [old.ints EXCEPT ![o] = x]
      BY <1>1
    <2> HIDE DEF c, old
    <2> QED
      BY <2>1, <2>2, <2>3, IntPut
  <1>4. Held' = [Held EXCEPT ![r][v] = c]
    BY OneChanges
  <1>5. Held[r][v] = old
    BY HeldCells
  <1> HIDE DEF c, old
  <1>6. Held' = [Held EXCEPT ![r][v].ints[o] = x]
    BY <1>3, <1>4, <1>5 DEF IntSetTo
  <1> QED
    BY <1>2, <1>5, <1>6, HeldCells
    DEF Spaces!Write, Spaces!Running, Spaces!Created, Running

LEMMA WriteMaps ==
  ASSUME IInv, NEW v \in VirtualAddresses, NEW o \in Offsets, NEW x \in Values,
         vms_write(v, o, x)
  PROVE  Spaces!Write(v, o, x)
  <1> DEFINE r == root_page_table
             page == At3(memory, r, v[1], v[2], v[3])
             f == FlagsAt(memory, r, v[1], v[2], v[3])
  <1>1. /\ Running /\ r \in roots
        /\ UNCHANGED <<root_page_table, roots, got, process>>
    BY DEF vms_write, Accesses
  <1>2. /\ SameMaps(memory, memory', roots)
        /\ In3(memory, r, v[1], v[2], v[3])
        /\ "write" \in f
        /\ IntIs(memory, memory', page, o, x)
    BY WriteKeeps, ValuesAreInts DEF IInv
  <1>3. ASSUME NEW s \in roots, NEW u \in VirtualAddresses, ~(s = r /\ u = v),
               In3(memory, s, u[1], u[2], u[3])
        PROVE  At3(memory, s, u[1], u[2], u[3]) # page
    <2>1. SUFFICES ASSUME At3(memory, s, u[1], u[2], u[3]) = page PROVE FALSE
      OBVIOUS
    <2>2. u = v
      BY <1>1, <1>2, <1>3, <2>1, OneMapping DEF Maps, IInv
    <2>3. \A i, j, k :
            /\ In3(memory, r, i, j, k) /\ In3(memory, s, i, j, k)
            /\ At3(memory, r, i, j, k) = At3(memory, s, i, j, k)
            => "write" \notin FlagsAt(memory, r, i, j, k)
      BY <1>1, <1>3, <2>2 DEF IInv, Forest, SharedAlike
    <2> QED
      BY <1>2, <1>3, <2>1, <2>2, <2>3
  <1>4. /\ In3(memory', r, v[1], v[2], v[3])
        /\ At3(memory', r, v[1], v[2], v[3]) = page
        /\ FlagsAt(memory', r, v[1], v[2], v[3]) = f
    BY <1>1, <1>2 DEF SameMaps
  <1> HIDE DEF page
  <1>5. OthersKept(memory, memory', roots, r, v)
    <2> SUFFICES ASSUME NEW s \in roots, NEW u \in VirtualAddresses, ~(s = r /\ u = v)
                 PROVE  CellIn(memory', s, u) = CellIn(memory, s, u)
      BY DEF OthersKept
    <2>1. /\ In3(memory', s, u[1], u[2], u[3]) <=> In3(memory, s, u[1], u[2], u[3])
          /\ In3(memory, s, u[1], u[2], u[3]) =>
               /\ At3(memory', s, u[1], u[2], u[3]) = At3(memory, s, u[1], u[2], u[3])
               /\ FlagsAt(memory', s, u[1], u[2], u[3]) = FlagsAt(memory, s, u[1], u[2], u[3])
      BY <1>2 DEF SameMaps
    <2>2. In3(memory, s, u[1], u[2], u[3]) =>
            memory'[At3(memory, s, u[1], u[2], u[3])] = memory[At3(memory, s, u[1], u[2], u[3])]
      BY <1>2, <1>3, MappedInUse DEF IInv, IntIs
    <2> QED
      BY <2>1, <2>2, CellKept
  <1>6. memory'[page].ints = [memory[page].ints EXCEPT ![o] = x] /\ Writes(f)
    BY <1>2 DEF IntIs, Writes
  <1> HIDE DEF f
  <1> QED
    BY <1>1, <1>2, <1>4, <1>5, <1>6, CellWritten DEF page, f

(* The handler moves the entry to a page of its own, or finds it alone.    *)
LEMMA FaultMaps ==
  ASSUME IInv, NEW v \in VirtualAddresses, NEW o \in Offsets, NEW x \in Values,
         vms_write_after_fault(v, o, x)
  PROVE  Spaces!Write(v, o, x)
  <1> DEFINE r == root_page_table
             old == At3(memory, r, v[1], v[2], v[3])
             f == FlagsAt(memory, r, v[1], v[2], v[3])
             e == Repaired(memory, r, v, HandlerPage(old))
  <1>1. /\ Running /\ r \in roots
        /\ UNCHANGED <<root_page_table, roots, got, process>>
    BY DEF vms_write_after_fault, Accesses
  <1>2. ref_track \in [Pages -> Int]
    <2>1. 0..MAX_ROOTS \subseteq Int
      BY ConstantsAssumption DEF ConstantsAssumption
    <2> QED
      BY <2>1 DEF IInv, Types
  <1>3. /\ OneEntry(memory, memory', roots, r, v[1], v[2], v[3], e)
        /\ In3(memory, r, v[1], v[2], v[3])
        /\ "custom" \in f
    BY <1>2, FaultRepairs DEF IInv
  <1>4. memory'[e.ppn].ints = [memory[old].ints EXCEPT ![o] = x]
    BY <1>2, FaultRepairs DEF IInv
  <1>5. OwnPage(memory, memory', roots, allocated, r, v, old, e.ppn)
    BY <1>2, FaultRepairs DEF IInv
  <1>6. /\ "valid" \in e.flags /\ Writes(e.flags) /\ Writes(f)
        /\ "read" \in e.flags <=> "read" \in f
    BY <1>3 DEF Repaired, In3, Valid, FlagsAt, Writes
  <1> HIDE DEF e, old
  <1>7. /\ In3(memory', r, v[1], v[2], v[3])
        /\ At3(memory', r, v[1], v[2], v[3]) = e.ppn
        /\ FlagsAt(memory', r, v[1], v[2], v[3]) = e.flags
    BY <1>3, <1>6 DEF OneEntry
  <1>8. ASSUME NEW s \in roots, NEW u \in VirtualAddresses, ~(s = r /\ u = v),
               In3(memory, s, u[1], u[2], u[3])
        PROVE  At3(memory, s, u[1], u[2], u[3]) # e.ppn
    <2>1. SUFFICES ASSUME At3(memory, s, u[1], u[2], u[3]) = e.ppn PROVE FALSE
      OBVIOUS
    <2>2. e.ppn \in allocated
      BY <1>8, <2>1, MappedInUse DEF IInv
    <2>3. e.ppn = old /\ Alone(memory, roots, r, v[1], v[2], v[3], old)
      BY <1>5, <2>2 DEF OwnPage
    <2>4. u = v
      BY <1>1, <1>3, <1>8, <2>1, <2>3, OneMapping DEF Maps, IInv, old
    <2> QED
      BY <1>8, <2>1, <2>3, <2>4 DEF Alone
  <1>9. OthersKept(memory, memory', roots, r, v)
    <2>1. OtherIntsKept(memory, memory', roots, r, v)
      BY <1>5, <1>8, MappedInUse DEF IInv, OtherIntsKept, OwnPage
    <2> QED
      BY <1>1, <1>3, <2>1, OtherCellsKept
  <1> HIDE DEF f
  <1> QED
    BY <1>1, <1>3, <1>4, <1>6, <1>7, <1>9, CellWritten DEF f, old

(* An access is fatal only where the space does not permit every access:   *)
(* the walk reaches each entry that permits one, and the handler repairs   *)
(* each custom entry that may be read.                                     *)
LEMMA FatalMaps ==
  ASSUME IInv, NEW v \in VirtualAddresses, NEW flag \in {"read", "write"},
         access_fatal(v, flag)
  PROVE  Spaces!Fault(v)
  <1> DEFINE r == root_page_table
             e == EntryOf(r, v)
             c == CellIn(memory, r, v)
  <1>1. /\ Running /\ r \in roots /\ process' = "EFAULT"
        /\ UNCHANGED <<memory, root_page_table, roots, got>>
    BY DEF access_fatal, Accesses, Exits
  <1>2. /\ ~(Reaches(v) /\ ~should_generate_fault(0, e) /\ Has(e, flag))
        /\ ~(flag = "write" /\ CallsHandler(v, flag) /\ Has(e, "valid"))
    BY DEF access_fatal
  <1>3. ASSUME c.readable /\ c.writable PROVE FALSE
    <2>1. In3(memory, r, v[1], v[2], v[3])
      BY <1>3 DEF CellIn, Blank
    <2>2. c.readable = ("read" \in FlagsAt(memory, r, v[1], v[2], v[3]))
          /\ c.writable = Writes(FlagsAt(memory, r, v[1], v[2], v[3]))
      BY <2>1 DEF CellIn, Writes
    <2>3. e.flags = FlagsAt(memory, r, v[1], v[2], v[3])
      BY MappedIs
    <2> HIDE DEF e, c
    <2>4. Has(e, "valid") /\ Has(e, "read") /\ (Has(e, "write") \/ Has(e, "custom"))
      BY <1>3, <2>1, <2>2, <2>3 DEF Has, Writes, In3, Valid, FlagsAt
    <2>5. Reaches(v)
      <3>1. /\ PTEOf(r, v[1]) = memory[r].pte[v[1]]
            /\ PTEOf(PageAt(r, <<v[1]>>), v[2]) = memory[At1(memory, r, v[1])].pte[v[2]]
        BY MappedIs
      <3>2. /\ memory[r].pte[v[1]].flags = {"valid"}
            /\ memory[At1(memory, r, v[1])].pte[v[2]].flags = {"valid"}
        BY <1>1, <2>1 DEF IInv, Forest, Plain, In3, In2
      <3> QED
        BY <3>1, <3>2 DEF Reaches, should_generate_fault, Has
    <2>6. flag = "write" /\ Has(e, "custom")
      BY <1>2, <2>4, <2>5 DEF should_generate_fault, e
    <2>7. CallsHandler(v, "write")
      BY <1>2, <2>4, <2>5, <2>6 DEF CallsHandler, should_generate_fault, e
    <2> QED
      BY <1>2, <2>4, <2>6, <2>7 DEF e
  <1>4. Held' = Held /\ Held[r][v] = c
    BY <1>1, HeldIs, HeldNext, HeldCells
  <1> HIDE DEF c
  <1> QED
    BY <1>1, <1>3, <1>4, HeldCells
    DEF Spaces!Fault, Spaces!Running, Spaces!Created, Running

(* Neither kind of fork changes what a space holds, and the new space      *)
(* holds what the current one does: of a shared page, or of a copy.        *)
LEMMA CopyMaps ==
  ASSUME IInv, NEW mode \in {"DEFAULT", "COW"}, copy(mode)
  PROVE  \E s \in Spaces!Created' \ Spaces!Created : Spaces!Fork(s)
  <1> DEFINE r == root_page_table
             dup == Duplicate(mode)
             n == dup[<<>>]
  <1>1. Running /\ r \in roots /\ UNCHANGED <<root_page_table, got, process>>
    BY DEF copy, Accesses
  <1>2. /\ n \in Pages /\ roots' = roots \cup {n}
        /\ Copied(memory, memory', roots, allocated, r, n, dup, mode)
        /\ \A q \in allocated : memory'[q].ints = memory[q].ints
    BY CopyKeeps DEF IInv, Types
  <1>3. mode = "DEFAULT" => \A i, j, k : In3(memory, r, i, j, k) =>
          memory'[dup[<<i, j, k>>]].ints = memory[At3(memory, r, i, j, k)].ints
    BY CopyKeeps DEF IInv, Types
  <1> HIDE DEF dup, n
  <1>4. KeepsCells
    <2> SUFFICES ASSUME NEW s \in roots, NEW u \in VirtualAddresses
                 PROVE  CellIn(memory', s, u) = CellIn(memory, s, u)
      BY DEF KeepsCells
    <2> DEFINE f == FlagsAt(memory, s, u[1], u[2], u[3])
               g == FlagsAt(memory', s, u[1], u[2], u[3])
    <2>1. /\ In3(memory', s, u[1], u[2], u[3]) <=> In3(memory, s, u[1], u[2], u[3])
          /\ In3(memory, s, u[1], u[2], u[3]) =>
               /\ At3(memory', s, u[1], u[2], u[3]) = At3(memory, s, u[1], u[2], u[3])
               /\ g = AfterFlags(mode, f) \/ g = f
      BY <1>2 DEF Copied, OldTrees, SameTree
    <2>2. /\ "read" \in AfterFlags(mode, f) <=> "read" \in f
          /\ Writes(AfterFlags(mode, f)) <=> Writes(f)
      BY AfterFlagsAre
    <2>3. In3(memory, s, u[1], u[2], u[3]) =>
            /\ memory'[At3(memory, s, u[1], u[2], u[3])].ints
                 = memory[At3(memory, s, u[1], u[2], u[3])].ints
      BY <1>2, MappedInUse DEF IInv
    <2> HIDE DEF f, g
    <2>4. In3(memory, s, u[1], u[2], u[3]) =>
            ("read" \in g <=> "read" \in f) /\ (Writes(g) <=> Writes(f))
      BY <2>1, <2>2
    <2> QED
      BY <2>1, <2>3, <2>4, CellKept DEF f, g
  <1>5. ASSUME NEW u \in VirtualAddresses
        PROVE  CellIn(memory', n, u) = CellIn(memory, r, u)
    <2> DEFINE f == FlagsAt(memory, r, u[1], u[2], u[3])
               g == FlagsAt(memory', n, u[1], u[2], u[3])
               p == At3(memory, r, u[1], u[2], u[3])
               q == At3(memory', n, u[1], u[2], u[3])
    <2>1. /\ In3(memory', n, u[1], u[2], u[3]) <=> In3(memory, r, u[1], u[2], u[3])
          /\ In3(memory, r, u[1], u[2], u[3]) =>
               /\ q = IF mode = "DEFAULT" THEN dup[<<u[1], u[2], u[3]>>] ELSE p
               /\ g = AfterFlags(mode, f)
      BY <1>2 DEF Copied, NewTree
    <2>2. /\ "read" \in AfterFlags(mode, f) <=> "read" \in f
          /\ Writes(AfterFlags(mode, f)) <=> Writes(f)
      BY AfterFlagsAre
    <2>3. In3(memory, r, u[1], u[2], u[3]) => memory'[q].ints = memory[p].ints
      BY <1>1, <1>2, <1>3, <2>1, MappedInUse DEF IInv
    <2> HIDE DEF f, g, p, q
    <2>4. In3(memory, r, u[1], u[2], u[3]) =>
            /\ ("read" \in g) = ("read" \in f)
            /\ Writes(g) = Writes(f)
      BY <2>1, <2>2 DEF Writes
    <2> QED
      BY <2>1, <2>3, <2>4 DEF CellIn, f, g, p, q
  <1>6. n \notin roots
    BY <1>2 DEF Copied
  <1>7. Spaces!Add(n, Held[r])
    <2>1. Held[r] = [u \in VirtualAddresses |-> CellIn(memory', n, u)]
      BY <1>1, <1>5, HeldCells
    <2> QED
      BY <1>2, <1>4, <1>6, <2>1, SpaceAdded
  <1>8. Spaces!Fork(n)
    BY <1>1, <1>7, HeldCells DEF Spaces!Fork, Spaces!Running, Spaces!Created, Running
  <1>9. n \in Spaces!Created' \ Spaces!Created
    BY <1>2, <1>6, HeldCells DEF Spaces!Created
  <1> QED
    BY <1>8, <1>9

-----------------------------------------------------------------------------
(* The refinement *)

LEMMA InitMaps == Init => Spaces!Init
  <1> SUFFICES ASSUME Init PROVE Spaces!Init
    OBVIOUS
  <1>1. roots = {} /\ root_page_table = NONE /\ got = 0 /\ process = "running"
    BY DEF Init
  <1>2. Held = [s \in {} |-> Spaces!UNMAPPED]
    BY <1>1 DEF Held
  <1> QED
    BY <1>1, <1>2 DEF Spaces!Init, Spaces!NONE, NONE

LEMMA NextMaps == IInv /\ [Next]_vars => [Spaces!Next]_(Spaces!vars)
  <1> SUFFICES ASSUME IInv, [Next]_vars
               PROVE  Spaces!Next \/ UNCHANGED Spaces!vars
    OBVIOUS
  <1>1. CASE client_new_root
    BY <1>1, NewRootMaps DEF Spaces!Next
  <1>2. CASE \E root \in roots : vms_set_root_page_table(root)
    BY <1>2, SetRootMaps, HeldCells DEF Spaces!Next, Spaces!Created
  <1>3. CASE \E root \in roots, v \in VirtualAddresses :
               \/ client_unmap(root, v)
               \/ \E mode \in MapModes[v] : client_map(root, v, mode)
    BY <1>3, UnmapMaps, MapMaps, HeldCells DEF Spaces!Next, Spaces!Created
  <1>4. CASE \E v \in VirtualAddresses, o \in Offsets :
               \/ vms_read(v, o)
               \/ \E x \in Values : vms_write(v, o, x) \/ vms_write_after_fault(v, o, x)
    BY <1>4, ReadMaps, WriteMaps, FaultMaps DEF Spaces!Next
  <1>5. CASE \E v \in VirtualAddresses, flag \in {"read", "write"} : access_no_memory(v, flag)
    BY <1>5, ExitMaps DEF access_no_memory, Accesses, Spaces!Next
  <1>6. CASE \E v \in VirtualAddresses, flag \in {"read", "write"} : access_fatal(v, flag)
    BY <1>6, FatalMaps DEF Spaces!Next
  <1>7. CASE vms_fork_copy \/ vms_fork_copy_on_write
    BY <1>7, CopyMaps DEF vms_fork_copy, vms_fork_copy_on_write, Spaces!Next
  <1>8. CASE copy_no_memory("DEFAULT") \/ copy_no_memory("COW")
    BY <1>8, ExitMaps DEF copy_no_memory, Accesses, Spaces!Next
  <1>9. CASE UNCHANGED vars \/ Halted
    <2>1. UNCHANGED <<memory, roots, root_page_table, got, process>>
      BY <1>9 DEF Halted, vars
    <2>2. Held' = Held
      BY <2>1, HeldIs, HeldNext
    <2> QED
      BY <2>1, <2>2 DEF Spaces!vars
  <1> QED
    BY <1>1, <1>2, <1>3, <1>4, <1>5, <1>6, <1>7, <1>8, <1>9 DEF Next

(* Under any sequence of maps, forks of both kinds, writes, reads and      *)
(* frees, each address space of vms.c behaves as private memory: that copy *)
(* shares pages and that page_fault_handler copies them later never shows. *)
THEOREM ImplementsAddressSpaces == Spec => ImplementsSpaces
  <1>1. Init => IInv /\ Spaces!Init
    BY InitHolds, InitMaps
  <1>2. IInv /\ [Next]_vars => IInv' /\ [Spaces!Next]_(Spaces!vars)
    BY NextHolds, NextMaps
  <1> QED
    BY <1>1, <1>2, PTL DEF Spec, ImplementsSpaces, Spaces!Spec
=============================================================================
