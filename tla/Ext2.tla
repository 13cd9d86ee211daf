--------------------------------- MODULE Ext2 ---------------------------------
(***************************************************************************)
(* The program of hello-ext2/src/ext2-create.c, which writes an ext2 file  *)
(* system into hello.img, one step per system call.  A call may fail, a    *)
(* write may be short, and the process may be killed; the file keeps what  *)
(* was written, somebody may use it, and the program is run again over it. *)
(*                                                                         *)
(* A file is its size and the writes that reached it, oldest first.  What  *)
(* a write puts there is a record of the fields that tie one structure to  *)
(* another; times, owners, permissions and constants are left out.         *)
(***************************************************************************)
EXTENDS Integers, Sequences, FiniteSets, FiniteSetsExt

BLOCK_SIZE == 1024
BLOCK_OFFSET(i) == i * BLOCK_SIZE
NUM_BLOCKS == 1024
NUM_INODES == 128

EXT2_ROOT_INO == 2
EXT2_GOOD_OLD_FIRST_INO == 11
LOST_AND_FOUND_INO == 11
HELLO_WORLD_INO == 12
HELLO_INO == 13
LAST_INO == HELLO_INO

SUPERBLOCK_BLOCKNO == 1
BLOCK_GROUP_DESCRIPTOR_BLOCKNO == 2
BLOCK_BITMAP_BLOCKNO == 3
INODE_BITMAP_BLOCKNO == 4
INODE_TABLE_BLOCKNO == 5
ROOT_DIR_BLOCKNO == 21
LOST_AND_FOUND_DIR_BLOCKNO == 22
HELLO_WORLD_FILE_BLOCKNO == 23
LAST_BLOCK == HELLO_WORLD_FILE_BLOCKNO

(* Bugs: block 0, which no bitmap counts, is taken for a free one; inodes     *)
(* are counted from 0 as blocks are.                                          *)
NumFreeWithBlock0 == NUM_BLOCKS - LAST_BLOCK
NumFreeWithoutInode0 == NUM_INODES - LAST_INO - 1

NUM_FREE_BLOCKS == NUM_BLOCKS - LAST_BLOCK - 1
NUM_FREE_INODES == NUM_INODES - LAST_INO

(* The bytes of the structures.  A superblock is longer than its block. *)
sizeof_superblock == 1052
sizeof_block_group_descriptor == 32
sizeof_inode == 128

strlen ==
  [s \in {"", ".", "..", "hello", "lost+found", "hello-world", "Hello world\n"} |->
     CASE s = "" -> 0 [] s = "." -> 1 [] s = ".." -> 2 [] s = "hello" -> 5
       [] s = "lost+found" -> 10 [] s = "hello-world" -> 11 [] OTHER -> 12]

-----------------------------------------------------------------------------
(* The system calls of a run.  After a call that failed the code exits with  *)
(* errno or with EXIT_FAILURE; both are not 0.                               *)

Open == [call |-> "open"]
Ftruncate(n) == [call |-> "ftruncate", len |-> n]
Time == [call |-> "time"]
Lseek(to) == [call |-> "lseek", to |-> to]
Write(what, len, exit) == [call |-> "write", what |-> what, len |-> len, exit |-> exit]
Close == [call |-> "close"]

write_superblock ==
  <<Lseek(BLOCK_OFFSET(1)), Time,
    Write([is |-> "superblock",
           s_inodes_count |-> NUM_INODES, s_blocks_count |-> NUM_BLOCKS,
           s_free_blocks_count |-> NUM_FREE_BLOCKS,
           s_free_inodes_count |-> NUM_FREE_INODES,
           s_first_data_block |-> SUPERBLOCK_BLOCKNO,
           s_blocks_per_group |-> BLOCK_SIZE * 8,
           s_inodes_per_group |-> NUM_INODES], sizeof_superblock, "errno")>>

write_block_group_descriptor_table ==
  <<Lseek(BLOCK_OFFSET(2)),
    Write([is |-> "descriptor",
           bg_block_bitmap |-> BLOCK_BITMAP_BLOCKNO,
           bg_inode_bitmap |-> INODE_BITMAP_BLOCKNO,
           bg_inode_table |-> INODE_TABLE_BLOCKNO,
           bg_free_blocks_count |-> NUM_FREE_BLOCKS,
           bg_free_inodes_count |-> NUM_FREE_INODES,
           bg_used_dirs_count |-> 2], sizeof_block_group_descriptor, "errno")>>

(* The bits below "below" and those from "from" on are set. *)
Bitmap(below, from) == [is |-> "bitmap", below |-> below, from |-> from]

write_block_bitmap ==
  <<Lseek(BLOCK_OFFSET(BLOCK_BITMAP_BLOCKNO)),
    Write(Bitmap(LAST_BLOCK, 1023), BLOCK_SIZE, "errno")>>

write_inode_bitmap ==
  <<Lseek(BLOCK_OFFSET(INODE_BITMAP_BLOCKNO)),
    Write(Bitmap(LAST_INO, 128), BLOCK_SIZE, "errno")>>

(* i_block is the set of the blocks it names; that of a symbolic link holds  *)
(* the target instead.                                                       *)
Inode(mode, size, links, blocks, block, target) ==
  [is |-> "inode", i_mode |-> mode, i_size |-> size, i_links_count |-> links,
   i_blocks |-> blocks, i_block |-> block, target |-> target]

write_inode(index, inode) ==
  <<Lseek(BLOCK_OFFSET(INODE_TABLE_BLOCKNO) + (index - 1) * sizeof_inode),
    Write(inode, sizeof_inode, "errno")>>

(* A bug: the ".." of lost+found is not counted. *)
RootWithoutChildren == Inode("IFDIR", 1024, 2, 2, {ROOT_DIR_BLOCKNO}, "")

root_inode == Inode("IFDIR", 1024, 3, 2, {ROOT_DIR_BLOCKNO}, "")

write_inode_table ==
  <<Time>>
    \o write_inode(LOST_AND_FOUND_INO,
                   Inode("IFDIR", 1024, 2, 2, {LOST_AND_FOUND_DIR_BLOCKNO}, ""))
    \o write_inode(EXT2_ROOT_INO, root_inode)
    \o write_inode(HELLO_WORLD_INO,
                   Inode("IFREG", 12, 1, 2, {HELLO_WORLD_FILE_BLOCKNO}, ""))
    \o write_inode(HELLO_INO,
                   Inode("IFLNK", strlen["hello-world"], 1, 0, {}, "hello-world"))

Entry(inode, rec_len, name) ==
  [is |-> "entry", inode |-> inode, rec_len |-> rec_len, name |-> name]

(* A bug: the name is not padded to four bytes. *)
UnpaddedRecLen(name) == 12 + strlen[name]

root_rec_len(name) == 12 + ((strlen[name] + 3) \div 4) * 4

RootEntries ==
  <<Entry(EXT2_ROOT_INO, 12, "."),
    Entry(EXT2_ROOT_INO, 12, ".."),
    Entry(LOST_AND_FOUND_INO, root_rec_len("lost+found"), "lost+found"),
    Entry(HELLO_WORLD_INO, root_rec_len("hello-world"), "hello-world"),
    Entry(HELLO_INO,
          BLOCK_SIZE - (12 + 12 + root_rec_len("lost+found") + root_rec_len("hello-world")),
          "hello")>>

(* The last write takes more bytes than an entry has: what follows it on the *)
(* stack is written behind the name.                                         *)
write_root_dir_block ==
  <<Lseek(BLOCK_OFFSET(ROOT_DIR_BLOCKNO))>>
    \o [i \in DOMAIN RootEntries |->
          Write(RootEntries[i], RootEntries[i].rec_len, "EXIT_FAILURE")]

dir_entry_set(inode, name) ==
  Entry(inode,
        IF strlen[name] % 4 # 0 THEN 12 + (strlen[name] \div 4) * 4 ELSE 8 + strlen[name],
        name)

dir_entry_write(entry) == Write(entry, entry.rec_len, "errno")

(* Six bytes: no inode, and a length that covers the rest of the block. *)
dir_entry_write_fill(bytes_remaining) ==
  Write(Entry(0, bytes_remaining, ""), 6, "errno")

write_lost_and_found_dir_block ==
  LET current == dir_entry_set(LOST_AND_FOUND_INO, ".")
      parent == dir_entry_set(EXT2_ROOT_INO, "..")
  IN  <<Lseek(BLOCK_OFFSET(LOST_AND_FOUND_DIR_BLOCKNO)),
        dir_entry_write(current), dir_entry_write(parent),
        dir_entry_write_fill(BLOCK_SIZE - current.rec_len - parent.rec_len)>>

write_hello_world_file_block ==
  <<Lseek(BLOCK_OFFSET(HELLO_WORLD_FILE_BLOCKNO)),
    Write([is |-> "text", text |-> "Hello world\n"], strlen["Hello world\n"],
          "EXIT_FAILURE")>>

(* A bug: the end of the superblock is written over the descriptor. *)
DescriptorFirst ==
  write_block_group_descriptor_table \o write_superblock
    \o write_block_bitmap \o write_inode_bitmap \o write_inode_table
    \o write_root_dir_block \o write_lost_and_found_dir_block
    \o write_hello_world_file_block

Structures ==
  write_superblock \o write_block_group_descriptor_table
    \o write_block_bitmap \o write_inode_bitmap \o write_inode_table
    \o write_root_dir_block \o write_lost_and_found_dir_block
    \o write_hello_world_file_block

main ==
  <<Open, Ftruncate(0), Ftruncate(NUM_BLOCKS * BLOCK_SIZE)>> \o Structures \o <<Close>>

-----------------------------------------------------------------------------
CONSTANT OldSizes    \* sizes of the file that a run may find

ASSUME OldSizesAssumption == OldSizes \subseteq Nat

VARIABLES
  hello_img,    \* the file
  offset,       \* the offset of fd
  pc,           \* the next system call, in main
  status        \* "none": no run since somebody else wrote the file;
                \* "running", or how the last run ended, as a shell sees it

vars == <<hello_img, offset, pc, status>>

(* A file that is not there is like an empty one: open creates it. *)
OldFiles ==
  {[size |-> n, writes |-> IF n = 0 THEN <<>>
                           ELSE <<[at |-> 0, len |-> n, what |-> [is |-> "old"]]>>] :
     n \in OldSizes \cup {0}}

Init ==
  /\ hello_img \in OldFiles
  /\ offset = 0
  /\ pc = 1
  /\ status = "none"

Running == status = "running"

Calling(call) == Running /\ main[pc].call = call

exec ==
  /\ ~Running
  /\ status' = "running"
  /\ offset' = 0
  /\ pc' = 1
  /\ UNCHANGED hello_img

(* The file exists now, and fd is at its beginning. *)
open ==
  /\ Calling("open")
  /\ pc' = pc + 1
  /\ UNCHANGED <<hello_img, offset, status>>

(* A bug: what is cut off is still there when the file grows again. *)
ResizedOnly(file, n) == [file EXCEPT !.size = n]

(* What is beyond n is gone; what a longer file gains reads as zeros. *)
Truncated(file, n) ==
  LET w == file.writes
      kept[i \in 0..Len(w)] ==    \* what is left of the first i writes
        IF i = 0 THEN <<>>
        ELSE IF w[i].at < n
             THEN Append(kept[i - 1], [w[i] EXCEPT !.len = Min({w[i].len, n - w[i].at})])
             ELSE kept[i - 1]
  IN  [size |-> n, writes |-> kept[Len(w)]]

ftruncate ==
  /\ Calling("ftruncate")
  /\ hello_img' = Truncated(hello_img, main[pc].len)
  /\ pc' = pc + 1
  /\ UNCHANGED <<offset, status>>

time ==
  /\ Calling("time")
  /\ pc' = pc + 1
  /\ UNCHANGED <<hello_img, offset, status>>

lseek ==
  /\ Calling("lseek")
  /\ offset' = main[pc].to
  /\ pc' = pc + 1
  /\ UNCHANGED <<hello_img, status>>

(* n bytes reach the file. *)
Written(n) ==
  /\ hello_img' = [size |-> Max({hello_img.size, offset + n}),
                   writes |-> Append(hello_img.writes,
                                     [at |-> offset, len |-> n, what |-> main[pc].what])]
  /\ offset' = offset + n

write ==
  /\ Calling("write")
  /\ Written(main[pc].len)
  /\ pc' = pc + 1
  /\ UNCHANGED status

(* A short write is no error of the system's: errno is still 0, and so is   *)
(* the status that errno_exit gives.                                        *)
short_write(n) ==
  /\ Calling("write")
  /\ n < main[pc].len
  /\ Written(n)
  /\ status' = IF main[pc].exit = "errno" THEN "success" ELSE "failure"
  /\ UNCHANGED pc

close ==
  /\ Calling("close")
  /\ pc' = pc + 1
  /\ status' = "success"
  /\ UNCHANGED <<hello_img, offset>>

(* The system call returns -1 and has had no effect. *)
fails ==
  /\ Running
  /\ status' = "failure"
  /\ UNCHANGED <<hello_img, offset, pc>>

killed ==
  /\ Running
  /\ status' = "killed"
  /\ UNCHANGED <<hello_img, offset, pc>>

(* Somebody else replaces the file, or mounts and changes it. *)
changed ==
  /\ ~Running
  /\ hello_img' \in OldFiles
  /\ status' = "none"
  /\ offset' = 0
  /\ pc' = 1

ShortCounts == 1..sizeof_superblock

Next ==
  \/ exec \/ open \/ ftruncate \/ time \/ lseek \/ write \/ close
  \/ \E n \in ShortCounts : short_write(n)
  \/ fails \/ killed \/ changed

Spec == Init /\ [][Next]_vars

-----------------------------------------------------------------------------
(* The image as a file system reads it *)

ZEROS == [is |-> "zeros"]
MIXED == [is |-> "mixed"]

(* What the len bytes at an address hold: the last write to any of them,     *)
(* provided that it begins there and is long enough.                         *)
Read(at, len) ==
  LET w == hello_img.writes
      hits == {i \in DOMAIN w : w[i].at < at + len /\ at < w[i].at + w[i].len}
  IN  IF hits = {} THEN ZEROS
      ELSE LET last == w[Max(hits)]
           IN  IF last.at = at /\ last.len >= len THEN last.what ELSE MIXED

Superblock == Read(BLOCK_OFFSET(1), BLOCK_SIZE)
Descriptor == Read(BLOCK_OFFSET(2), sizeof_block_group_descriptor)
BlockBitmap == Read(BLOCK_OFFSET(Descriptor.bg_block_bitmap), BLOCK_SIZE)
InodeBitmap == Read(BLOCK_OFFSET(Descriptor.bg_inode_bitmap), BLOCK_SIZE)
InodeAt(i) ==
  Read(BLOCK_OFFSET(Descriptor.bg_inode_table) + (i - 1) * sizeof_inode, sizeof_inode)
EntryAt(b, o) == Read(BLOCK_OFFSET(b) + o, 6)

Inodes == {i \in 1..NUM_INODES : InodeAt(i).is = "inode"}
Directories == {i \in Inodes : InodeAt(i).i_mode = "IFDIR"}
DirBlock(d) == CHOOSE b \in InodeAt(d).i_block : TRUE

Marked(bitmap, i) == i < bitmap.below \/ i >= bitmap.from

(* The offsets at which the entries of block b begin, and where they end. *)
Offsets(b) ==
  LET from[o \in Nat] ==
        IF o < BLOCK_SIZE /\ EntryAt(b, o).is = "entry"
        THEN {o} \cup from[o + EntryAt(b, o).rec_len] ELSE {o}
  IN  from[0]

(* The entries with a name, each with its directory. *)
Names ==
  UNION {{[dir |-> d, at |-> o] :
            o \in {o \in Offsets(DirBlock(d)) \ {BLOCK_SIZE} :
                     EntryAt(DirBlock(d), o).inode # 0}} : d \in Directories}
Named(n) == EntryAt(DirBlock(n.dir), n.at)
-----------------------------------------------------------------------------
(* Properties *)

(* The type invariant. *)
TypeOK ==
  /\ hello_img.size \in Nat
  /\ \A i \in DOMAIN hello_img.writes :
       LET w == hello_img.writes[i]
       IN  w.at \in Nat /\ w.len \in Nat \ {0} /\ w.at + w.len <= hello_img.size
  /\ offset \in 0..(NUM_BLOCKS * BLOCK_SIZE)
  /\ pc \in 1..(Len(main) + 1)
  /\ status \in {"none", "running", "success", "failure", "killed"}

(* main has returned 0, as opposed to exit(0) after a short write. *)
Completed == status = "success" /\ pc > Len(main)

(* Whatever the file held, and wherever earlier runs stopped, a completed run *)
(* leaves every structure whole where the structure that leads to it says:     *)
(* nothing later overlaps it, and the file has the size of the file system.    *)
StructuresWhole ==
  Completed =>
    /\ hello_img.size = NUM_BLOCKS * BLOCK_SIZE
    /\ Superblock.is = "superblock"
    /\ Descriptor.is = "descriptor"
    /\ BlockBitmap.is = "bitmap" /\ InodeBitmap.is = "bitmap"
    /\ EXT2_ROOT_INO \in Directories
    /\ \A i \in Inodes :
         LET inode == InodeAt(i)
         IN  \A b \in inode.i_block :
               \/ /\ inode.i_mode = "IFDIR" /\ inode.i_size = BLOCK_SIZE
                  /\ EntryAt(b, 0).is = "entry"
               \/ /\ inode.i_mode = "IFREG"
                  /\ Read(BLOCK_OFFSET(b), inode.i_size).is = "text"
                  /\ strlen[Read(BLOCK_OFFSET(b), inode.i_size).text] = inode.i_size

(* In a completed image every block has at most one use, the block bitmap     *)
(* marks exactly the blocks in use and the bits without a block, i_blocks is   *)
(* in units of 512 bytes, and both free counts are the number of clear bits.   *)
BlocksAccounted ==
  Completed =>
    LET table == INODE_TABLE_BLOCKNO..
                   (INODE_TABLE_BLOCKNO
                      + (Superblock.s_inodes_per_group * sizeof_inode) \div BLOCK_SIZE - 1)
        fixed == {Superblock.s_first_data_block, BLOCK_GROUP_DESCRIPTOR_BLOCKNO,
                  Descriptor.bg_block_bitmap, Descriptor.bg_inode_bitmap} \cup table
        used == fixed \cup UNION {InodeAt(i).i_block : i \in Inodes}
        bit(b) == b - Superblock.s_first_data_block
        clear == {i \in 0..(Superblock.s_blocks_per_group - 1) : ~Marked(BlockBitmap, i)}
    IN  /\ \A i \in Inodes :
             /\ InodeAt(i).i_block \cap fixed = {}
             /\ InodeAt(i).i_blocks * 512 = Cardinality(InodeAt(i).i_block) * BLOCK_SIZE
             /\ \A j \in Inodes \ {i} : InodeAt(i).i_block \cap InodeAt(j).i_block = {}
        /\ clear = {bit(b) : b \in (1..(NUM_BLOCKS - 1)) \ used}
        /\ Superblock.s_free_blocks_count = Cardinality(clear)
        /\ Descriptor.bg_free_blocks_count = Cardinality(clear)

(* In a completed image the inode bitmap marks exactly the reserved inodes and *)
(* those that are there; the others are zero, whatever an older image held;     *)
(* the free counts agree, and so does the number of directories.                *)
InodesAccounted ==
  Completed =>
    LET clear == {i \in 0..(BLOCK_SIZE * 8 - 1) : ~Marked(InodeBitmap, i)}
    IN  /\ \A i \in (1..NUM_INODES) \ Inodes : InodeAt(i) = ZEROS
        /\ clear = {i - 1 : i \in (EXT2_GOOD_OLD_FIRST_INO..NUM_INODES) \ Inodes}
        /\ Superblock.s_free_inodes_count = Cardinality(clear)
        /\ Descriptor.bg_free_inodes_count = Cardinality(clear)
        /\ Descriptor.bg_used_dirs_count = Cardinality(Directories)

(* In a completed image the entries of a directory tile its block: each begins *)
(* at a multiple of four where the one before it ends, holds its name, and the *)
(* last ends with the block.  Names differ.                                    *)
DirectoriesTile ==
  Completed =>
    \A d \in Directories :
      LET b == DirBlock(d)
          begins == Offsets(b) \ {BLOCK_SIZE}
      IN  /\ BLOCK_SIZE \in Offsets(b)
          /\ \A o \in begins :
               /\ o % 4 = 0
               /\ EntryAt(b, o).is = "entry"
               /\ EntryAt(b, o).rec_len >= 8 + strlen[EntryAt(b, o).name]
               /\ \A p \in begins \ {o} : EntryAt(b, p).name # EntryAt(b, o).name

(* In a completed image every name leads to an inode, every inode has as many  *)
(* names as i_links_count says and at least one, "." and ".." included, and     *)
(* the target of the symbolic link is a name of the root directory.             *)
LinksCounted ==
  Completed =>
    /\ \A n \in Names : Named(n).inode \in Inodes
    /\ \A i \in Inodes :
         /\ InodeAt(i).i_links_count = Cardinality({n \in Names : Named(n).inode = i})
         /\ InodeAt(i).i_links_count > 0
    /\ \A d \in Directories : \E n \in Names :
         n.dir = d /\ Named(n).name = "." /\ Named(n).inode = d
    /\ \A i \in Inodes : InodeAt(i).i_mode = "IFLNK" =>
         /\ InodeAt(i).i_size = strlen[InodeAt(i).target]
         /\ \E n \in Names :
              n.dir = EXT2_ROOT_INO /\ Named(n).name = InodeAt(i).target
==============================================================================
