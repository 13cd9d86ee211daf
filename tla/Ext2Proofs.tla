------------------------------ MODULE Ext2Proofs ------------------------------
(***************************************************************************)
(* Theorems about Ext2, for any file that a run may find: what a completed *)
(* run leaves is one image, and what a file system reads in it.            *)
(***************************************************************************)
EXTENDS Ext2, TLAPS, FiniteSetTheorems, SequenceTheorems, WellFoundedInduction

(* Where the writes of main are, the offset of fd before each call of main, and *)
(* how many writes were before it.                                              *)
Place == <<6, 8, 10, 12, 15, 17, 19, 21, 23, 24, 25, 26, 27, 29, 30, 31, 33>>

Fd ==
  <<0, 0, 0, 0, 1024, 1024, 2076, 2048, 2080, 3072, 4096, 4096, 5120, 5120,
    6400, 6528, 5248, 5376, 6528, 6656, 6656, 6784,
    21504, 21516, 21528, 21552, 21576, 22528,
    22528, 22540, 22552, 22558, 23552, 23564, 23564>>

Done ==
  <<0, 0, 0, 0, 0, 0, 1, 1, 2, 2, 3, 3, 4, 4, 4, 5, 5, 6, 6, 7, 7, 8,
    8, 9, 10, 11, 12, 13, 13, 14, 15, 16, 16, 17, 17>>

(* The writes of main, each at its address. *)
Image ==
  [k \in 1..17 |->
     [at |-> Fd[Place[k]], len |-> main[Place[k]].len, what |-> main[Place[k]].what]]

FileSize == NUM_BLOCKS * BLOCK_SIZE

(* The file after the first n writes. *)
Prefix(n) == [size |-> FileSize, writes |-> [k \in 1..n |-> Image[k]]]

Tuple(s, n) == n \in Nat /\ s = [i \in 1..n |-> s[i]]

(* The writes of a file are a sequence, and inside the file. *)
WritesTyped(file) ==
  /\ file.size \in Nat
  /\ Tuple(file.writes, Len(file.writes))
  /\ \A i \in DOMAIN file.writes :
       LET w == file.writes[i]
       IN  w.at \in Nat /\ w.len \in Nat \ {0} /\ w.at + w.len <= file.size

(* What a run has made of the file, whatever it was: after the first truncation *)
(* nothing is left of it, and after the second the file is what main has         *)
(* written so far.                                                               *)
ImageSoFar ==
  /\ Running => pc <= Len(main)
  /\ pc <= 3 => offset = 0
  /\ pc = 3 /\ Running => hello_img = [size |-> 0, writes |-> <<>>]
  /\ pc > 3 /\ (Running \/ Completed) => hello_img = Prefix(Done[pc]) /\ offset = Fd[pc]

IInv ==
  /\ WritesTyped(hello_img)
  /\ offset \in Nat /\ offset <= FileSize
  /\ pc \in 1..(Len(main) + 1)
  /\ status \in {"none", "running", "success", "failure", "killed"}
  /\ ImageSoFar
-----------------------------------------------------------------------------
(* The calls of main *)

(* u is the tuple s of length m with the tuple t of length n behind it. *)
Follow(u, s, m, t, n, len) ==
  /\ Tuple(u, len)
  /\ \A i \in 1..m : u[i] = s[i]
  /\ \A i \in 1..n : u[m + i] = t[i]

LEMMA Joined ==
  ASSUME NEW s, NEW t, NEW m, NEW n, NEW len, Tuple(s, m), Tuple(t, n), len = m + n
  PROVE  Follow(s \o t, s, m, t, n, len)
<1> DEFINE S == {s[i] : i \in 1..m} \cup {t[i] : i \in 1..n}
<1>1. s \in Seq(S) /\ Len(s) = m
  <2>1. [i \in 1..m |-> s[i]] \in [1..m -> S]
    OBVIOUS
  <2> QED  BY <2>1 DEF Tuple
<1>2. t \in Seq(S) /\ Len(t) = n
  <2>1. [i \in 1..n |-> t[i]] \in [1..n -> S]
    OBVIOUS
  <2> QED  BY <2>1 DEF Tuple
<1> HIDE DEF S
<1>3. m \in Nat /\ n \in Nat
  BY DEF Tuple
<1>4. s \o t \in Seq(S) /\ Len(s \o t) = len
  BY <1>1, <1>2
<1>5. Tuple(s \o t, len)
  BY <1>3, <1>4 DEF Tuple
<1>6. \A i \in 1..m : (s \o t)[i] = s[i]
  BY <1>1, <1>2, <1>3
<1>7. \A i \in 1..n : (s \o t)[m + i] = t[i]
  BY <1>1, <1>2, <1>3
<1> QED
  BY <1>5, <1>6, <1>7 DEF Follow

LEMMA TupleLen ==
  ASSUME NEW s, NEW n, Tuple(s, n)
  PROVE  Len(s) = n
<1> DEFINE S == {s[i] : i \in 1..n}
<1>1. [i \in 1..n |-> s[i]] \in [1..n -> S]
  OBVIOUS
<1> QED
  BY <1>1 DEF Tuple

LEMMA Tuples ==
  /\ \A a : Tuple(<<a>>, 1)
  /\ \A a, b : Tuple(<<a, b>>, 2)
  /\ \A a, b, c : Tuple(<<a, b, c>>, 3)
  /\ \A a, b, c, d : Tuple(<<a, b, c, d>>, 4)
BY DEF Tuple

(* The inodes, in the order in which they are written. *)
LostAndFoundInode == Inode("IFDIR", 1024, 2, 2, {LOST_AND_FOUND_DIR_BLOCKNO}, "")
HelloWorldInode == Inode("IFREG", 12, 1, 2, {HELLO_WORLD_FILE_BLOCKNO}, "")
HelloInode == Inode("IFLNK", strlen["hello-world"], 1, 0, {}, "hello-world")

LEMMA InodeCalls ==
  /\ Tuple(write_inode_table, 9)
  /\ write_inode_table[1] = Time
  /\ \A i \in 1..2 :
       /\ write_inode_table[1 + i] = write_inode(LOST_AND_FOUND_INO, LostAndFoundInode)[i]
       /\ write_inode_table[3 + i] = write_inode(EXT2_ROOT_INO, root_inode)[i]
       /\ write_inode_table[5 + i] = write_inode(HELLO_WORLD_INO, HelloWorldInode)[i]
       /\ write_inode_table[7 + i] = write_inode(HELLO_INO, HelloInode)[i]
<1> DEFINE s == <<Time>>
           a == write_inode(LOST_AND_FOUND_INO, LostAndFoundInode)
           b == write_inode(EXT2_ROOT_INO, root_inode)
           c == write_inode(HELLO_WORLD_INO, HelloWorldInode)
           d == write_inode(HELLO_INO, HelloInode)
<1>1. Tuple(s, 1) /\ Tuple(a, 2) /\ Tuple(b, 2) /\ Tuple(c, 2) /\ Tuple(d, 2)
  BY Tuples DEF write_inode
<1>2. write_inode_table = (((s \o a) \o b) \o c) \o d
  BY DEF write_inode_table, LostAndFoundInode, HelloWorldInode, HelloInode
<1> HIDE DEF s, a, b, c, d
<1> DEFINE sa == s \o a
           sb == sa \o b
           sc == sb \o c
           sd == sc \o d
<1>3. Follow(sa, s, 1, a, 2, 3)
  BY <1>1, Joined
<1> HIDE DEF sa
<1>4. Follow(sb, sa, 3, b, 2, 5)
  <2>1. Tuple(sa, 3)
    BY <1>3 DEF Follow
  <2> QED  BY <1>1, <2>1, Joined
<1> HIDE DEF sb
<1>5. Follow(sc, sb, 5, c, 2, 7)
  <2>1. Tuple(sb, 5)
    BY <1>4 DEF Follow
  <2> QED  BY <1>1, <2>1, Joined
<1> HIDE DEF sc
<1>6. Follow(sd, sc, 7, d, 2, 9)
  <2>1. Tuple(sc, 7)
    BY <1>5 DEF Follow
  <2> QED  BY <1>1, <2>1, Joined
<1> HIDE DEF sd
<1>7. write_inode_table = sd
  BY <1>2, Zenon DEF sa, sb, sc, sd
<1> HIDE DEF sd
<1> QED
  <2>1. s[1] = Time
    BY DEF s
  <2>2. /\ sa[1] = Time
        /\ \A i \in 1..2 : sa[1 + i] = a[i]
    BY <1>3, <2>1 DEF Follow
  <2>3. /\ sb[1] = Time
        /\ \A i \in 1..2 : sb[1 + i] = a[i] /\ sb[3 + i] = b[i]
    BY <1>4, <2>2 DEF Follow
  <2>4. /\ sc[1] = Time
        /\ \A i \in 1..2 : sc[1 + i] = a[i] /\ sc[3 + i] = b[i] /\ sc[5 + i] = c[i]
    BY <1>5, <2>3 DEF Follow
  <2>5. /\ sd[1] = Time
        /\ \A i \in 1..2 :
             sd[1 + i] = a[i] /\ sd[3 + i] = b[i] /\ sd[5 + i] = c[i] /\ sd[7 + i] = d[i]
    BY <1>6, <2>4 DEF Follow
  <2> QED  BY <1>6, <1>7, <2>5 DEF Follow, a, b, c, d

LEMMA RootCalls ==
  /\ Tuple(write_root_dir_block, 6)
  /\ write_root_dir_block[1] = Lseek(BLOCK_OFFSET(ROOT_DIR_BLOCKNO))
  /\ \A i \in 1..5 :
       write_root_dir_block[1 + i] = Write(RootEntries[i], RootEntries[i].rec_len, "EXIT_FAILURE")
<1> DEFINE s == <<Lseek(BLOCK_OFFSET(ROOT_DIR_BLOCKNO))>>
           t == [i \in DOMAIN RootEntries |->
                   Write(RootEntries[i], RootEntries[i].rec_len, "EXIT_FAILURE")]
<1>1. Tuple(s, 1) /\ s[1] = Lseek(BLOCK_OFFSET(ROOT_DIR_BLOCKNO))
  BY Tuples
<1>2. DOMAIN RootEntries = 1..5
  BY DEF RootEntries
<1>3. /\ Tuple(t, 5)
      /\ \A i \in 1..5 :
           t[i] = Write(RootEntries[i], RootEntries[i].rec_len, "EXIT_FAILURE")
  BY <1>2 DEF Tuple
<1>4. write_root_dir_block = s \o t
  BY DEF write_root_dir_block
<1> HIDE DEF s, t
<1> DEFINE u == s \o t
<1>5. Follow(u, s, 1, t, 5, 6)
  BY <1>1, <1>3, Joined
<1> HIDE DEF u
<1>6. u[1] = s[1]
  BY <1>5 DEF Follow
<1>7. \A i \in 1..5 : u[1 + i] = t[i]
  BY <1>5 DEF Follow
<1>8. Tuple(u, 6) /\ write_root_dir_block = u
  BY <1>4, <1>5 DEF Follow, u
<1>9. write_root_dir_block[1] = Lseek(BLOCK_OFFSET(ROOT_DIR_BLOCKNO))
  BY <1>1, <1>6, <1>8
<1>10. ASSUME NEW i \in 1..5
       PROVE  write_root_dir_block[1 + i] =
                Write(RootEntries[i], RootEntries[i].rec_len, "EXIT_FAILURE")
  <2>1. write_root_dir_block[1 + i] = t[i]
    BY <1>7, <1>8
  <2> QED  BY <1>3, <2>1, Zenon
<1> QED
  BY <1>8, <1>9, <1>10

(* Each part of main is one structure. *)
LEMMA MainParts ==
  /\ Tuple(main, 34)
  /\ main[1] = Open
  /\ main[2] = Ftruncate(0)
  /\ main[3] = Ftruncate(NUM_BLOCKS * BLOCK_SIZE)
  /\ \A i \in 1..3 : main[3 + i] = write_superblock[i]
  /\ \A i \in 1..2 : main[6 + i] = write_block_group_descriptor_table[i]
  /\ \A i \in 1..2 : main[8 + i] = write_block_bitmap[i]
  /\ \A i \in 1..2 : main[10 + i] = write_inode_bitmap[i]
  /\ \A i \in 1..9 : main[12 + i] = write_inode_table[i]
  /\ \A i \in 1..6 : main[21 + i] = write_root_dir_block[i]
  /\ \A i \in 1..4 : main[27 + i] = write_lost_and_found_dir_block[i]
  /\ \A i \in 1..2 : main[31 + i] = write_hello_world_file_block[i]
  /\ main[34] = Close
<1> DEFINE o == <<Open, Ftruncate(0), Ftruncate(NUM_BLOCKS * BLOCK_SIZE)>>
           z == <<Close>>
<1>1. /\ Tuple(o, 3) /\ Tuple(z, 1)
      /\ o[1] = Open /\ o[2] = Ftruncate(0) /\ o[3] = Ftruncate(NUM_BLOCKS * BLOCK_SIZE)
      /\ z[1] = Close
  BY Tuples
<1>2. /\ Tuple(write_superblock, 3)
      /\ Tuple(write_block_group_descriptor_table, 2)
      /\ Tuple(write_block_bitmap, 2)
      /\ Tuple(write_inode_bitmap, 2)
      /\ Tuple(write_inode_table, 9)
      /\ Tuple(write_root_dir_block, 6)
      /\ Tuple(write_lost_and_found_dir_block, 4)
      /\ Tuple(write_hello_world_file_block, 2)
  <2>1. Tuple(write_superblock, 3)
    BY Tuples DEF write_superblock
  <2>2. Tuple(write_block_group_descriptor_table, 2)
    BY Tuples DEF write_block_group_descriptor_table
  <2>3. Tuple(write_block_bitmap, 2)
    BY Tuples DEF write_block_bitmap
  <2>4. Tuple(write_inode_bitmap, 2)
    BY Tuples DEF write_inode_bitmap
  <2>5. Tuple(write_lost_and_found_dir_block, 4)
    BY Tuples DEF write_lost_and_found_dir_block
  <2>6. Tuple(write_hello_world_file_block, 2)
    BY Tuples DEF write_hello_world_file_block
  <2> QED
    BY <2>1, <2>2, <2>3, <2>4, <2>5, <2>6, InodeCalls, RootCalls
<1> HIDE DEF o, z
<1> DEFINE sb == write_superblock \o write_block_group_descriptor_table
           sc == sb \o write_block_bitmap
           sd == sc \o write_inode_bitmap
           se == sd \o write_inode_table
           sf == se \o write_root_dir_block
           sg == sf \o write_lost_and_found_dir_block
           sh == sg \o write_hello_world_file_block
           so == o \o sh
           sz == so \o z
<1>3. Follow(sb, write_superblock, 3, write_block_group_descriptor_table, 2, 5)
  BY <1>2, Joined
<1> HIDE DEF sb
<1>4. Follow(sc, sb, 5, write_block_bitmap, 2, 7)
  <2>1. Tuple(sb, 5)
    BY <1>3 DEF Follow
  <2>2. Tuple(write_block_bitmap, 2)
    BY <1>2
  <2> QED  BY <2>1, <2>2, Joined
<1> HIDE DEF sc
<1>5. Follow(sd, sc, 7, write_inode_bitmap, 2, 9)
  <2>1. Tuple(sc, 7)
    BY <1>4 DEF Follow
  <2>2. Tuple(write_inode_bitmap, 2)
    BY <1>2
  <2> QED  BY <2>1, <2>2, Joined
<1> HIDE DEF sd
<1>6. Follow(se, sd, 9, write_inode_table, 9, 18)
  <2>1. Tuple(sd, 9)
    BY <1>5 DEF Follow
  <2>2. Tuple(write_inode_table, 9)
    BY <1>2
  <2> QED  BY <2>1, <2>2, Joined
<1> HIDE DEF se
<1>7. Follow(sf, se, 18, write_root_dir_block, 6, 24)
  <2>1. Tuple(se, 18)
    BY <1>6 DEF Follow
  <2>2. Tuple(write_root_dir_block, 6)
    BY <1>2
  <2> QED  BY <2>1, <2>2, Joined
<1> HIDE DEF sf
<1>8. Follow(sg, sf, 24, write_lost_and_found_dir_block, 4, 28)
  <2>1. Tuple(sf, 24)
    BY <1>7 DEF Follow
  <2>2. Tuple(write_lost_and_found_dir_block, 4)
    BY <1>2
  <2> QED  BY <2>1, <2>2, Joined
<1> HIDE DEF sg
<1>9. Follow(sh, sg, 28, write_hello_world_file_block, 2, 30)
  <2>1. Tuple(sg, 28)
    BY <1>8 DEF Follow
  <2>2. Tuple(write_hello_world_file_block, 2)
    BY <1>2
  <2> QED  BY <2>1, <2>2, Joined
<1> HIDE DEF sh
<1>10. Follow(so, o, 3, sh, 30, 33)
  <2>1. Tuple(sh, 30)
    BY <1>9 DEF Follow
  <2>2. Tuple(o, 3)
    BY <1>1
  <2>3. 33 = 3 + 30
    OBVIOUS
  <2> QED  BY <2>1, <2>2, <2>3, Joined, Zenon
<1> HIDE DEF so
<1>11. Follow(sz, so, 33, z, 1, 34)
  <2>1. Tuple(so, 33)
    BY <1>10 DEF Follow
  <2>2. Tuple(z, 1)
    BY <1>1
  <2> QED  BY <2>1, <2>2, Joined
<1> HIDE DEF sz
<1>12. main = sz
  BY Zenon DEF main, Structures, o, z, so, sz, sb, sc, sd, se, sf, sg, sh
<1>13. /\ \A i \in 1..30 : main[3 + i] = sh[i]
       /\ \A i \in 1..3 : main[i] = o[i]
       /\ main[34] = Close
       /\ Tuple(main, 34)
  BY <1>1, <1>10, <1>11, <1>12 DEF Follow
<1>14. /\ \A i \in 1..2 : main[31 + i] = write_hello_world_file_block[i]
       /\ \A i \in 1..28 : main[3 + i] = sg[i]
  BY <1>9, <1>13 DEF Follow
<1>15. /\ \A i \in 1..4 : main[27 + i] = write_lost_and_found_dir_block[i]
       /\ \A i \in 1..24 : main[3 + i] = sf[i]
  BY <1>8, <1>14 DEF Follow
<1>16. /\ \A i \in 1..6 : main[21 + i] = write_root_dir_block[i]
       /\ \A i \in 1..18 : main[3 + i] = se[i]
  BY <1>7, <1>15 DEF Follow
<1>17. /\ \A i \in 1..9 : main[12 + i] = write_inode_table[i]
       /\ \A i \in 1..9 : main[3 + i] = sd[i]
  BY <1>6, <1>16 DEF Follow
<1>18. /\ \A i \in 1..2 : main[10 + i] = write_inode_bitmap[i]
       /\ \A i \in 1..7 : main[3 + i] = sc[i]
  BY <1>5, <1>17 DEF Follow
<1>19. /\ \A i \in 1..2 : main[8 + i] = write_block_bitmap[i]
       /\ \A i \in 1..5 : main[3 + i] = sb[i]
  BY <1>4, <1>18 DEF Follow
<1>20. /\ \A i \in 1..2 : main[6 + i] = write_block_group_descriptor_table[i]
       /\ \A i \in 1..3 : main[3 + i] = write_superblock[i]
  BY <1>3, <1>19 DEF Follow
<1> QED
  BY <1>1, <1>13, <1>14, <1>15, <1>16, <1>17, <1>18, <1>19, <1>20

SeekTo(p, n) == main[p].call = "lseek" /\ main[p].to = n
WriteOf(p, n) == main[p].call = "write" /\ main[p].len = n
TimeAt(p) == main[p].call = "time"

LEMMA WriteIs ==
  \A p, what, n, exit :
    main[p] = Write(what, n, exit) => WriteOf(p, n) /\ main[p].what = what
BY DEF Write, WriteOf

LEMMA MapCalls ==
  /\ SeekTo(4, 1024) /\ TimeAt(5) /\ WriteOf(6, 1052)
  /\ SeekTo(7, 2048) /\ WriteOf(8, 32)
  /\ SeekTo(9, 3072) /\ WriteOf(10, 1024)
  /\ SeekTo(11, 4096) /\ WriteOf(12, 1024)
<1>1. main[4] = Lseek(BLOCK_OFFSET(1)) /\ main[5] = Time
  <2>1. main[4] = write_superblock[1] /\ main[5] = write_superblock[2]
    BY MainParts
  <2> QED  BY <2>1 DEF write_superblock
<1>2. main[6] = write_superblock[3]
  BY MainParts
<1>3. main[6].call = "write" /\ main[6].len = sizeof_superblock
  BY <1>2 DEF write_superblock, Write
<1>4. main[7] = write_block_group_descriptor_table[1]
      /\ main[8] = write_block_group_descriptor_table[2]
  BY MainParts
<1>5. /\ main[7] = Lseek(BLOCK_OFFSET(2))
      /\ main[8].call = "write" /\ main[8].len = sizeof_block_group_descriptor
  BY <1>4 DEF write_block_group_descriptor_table, Write
<1>6. /\ main[9] = write_block_bitmap[1] /\ main[10] = write_block_bitmap[2]
      /\ main[11] = write_inode_bitmap[1] /\ main[12] = write_inode_bitmap[2]
  BY MainParts
<1>7. /\ main[9] = Lseek(BLOCK_OFFSET(BLOCK_BITMAP_BLOCKNO))
      /\ main[10].call = "write" /\ main[10].len = BLOCK_SIZE
  BY <1>6 DEF write_block_bitmap, Write
<1>8. /\ main[11] = Lseek(BLOCK_OFFSET(INODE_BITMAP_BLOCKNO))
      /\ main[12].call = "write" /\ main[12].len = BLOCK_SIZE
  BY <1>6 DEF write_inode_bitmap, Write
<1> QED
  BY <1>1, <1>3, <1>5, <1>7, <1>8 DEF SeekTo, WriteOf, TimeAt, Time, Lseek, BLOCK_OFFSET,
     BLOCK_SIZE, sizeof_superblock, sizeof_block_group_descriptor, BLOCK_BITMAP_BLOCKNO,
     INODE_BITMAP_BLOCKNO

LEMMA InodeTableCalls ==
  /\ TimeAt(13)
  /\ SeekTo(14, 6400) /\ WriteOf(15, 128) /\ main[15].what = LostAndFoundInode
  /\ SeekTo(16, 5248) /\ WriteOf(17, 128) /\ main[17].what = root_inode
  /\ SeekTo(18, 6528) /\ WriteOf(19, 128) /\ main[19].what = HelloWorldInode
  /\ SeekTo(20, 6656) /\ WriteOf(21, 128) /\ main[21].what = HelloInode
<1>1. \A n, x : /\ write_inode(n, x)[1] = Lseek(5120 + (n - 1) * 128)
                /\ write_inode(n, x)[2] = Write(x, 128, "errno")
  BY DEF write_inode, BLOCK_OFFSET, INODE_TABLE_BLOCKNO, BLOCK_SIZE, sizeof_inode
<1>2. main[13] = write_inode_table[1] /\ \A i \in 1..8 : main[13 + i] = write_inode_table[1 + i]
  BY MainParts
<1>3. main[13] = Time
  BY <1>2, InodeCalls
<1>4. /\ main[14] = write_inode(LOST_AND_FOUND_INO, LostAndFoundInode)[1]
      /\ main[15] = write_inode(LOST_AND_FOUND_INO, LostAndFoundInode)[2]
  BY <1>2, InodeCalls
<1>5. /\ main[16] = write_inode(EXT2_ROOT_INO, root_inode)[1]
      /\ main[17] = write_inode(EXT2_ROOT_INO, root_inode)[2]
  BY <1>2, InodeCalls
<1>6. /\ main[18] = write_inode(HELLO_WORLD_INO, HelloWorldInode)[1]
      /\ main[19] = write_inode(HELLO_WORLD_INO, HelloWorldInode)[2]
  BY <1>2, InodeCalls
<1>7. /\ main[20] = write_inode(HELLO_INO, HelloInode)[1]
      /\ main[21] = write_inode(HELLO_INO, HelloInode)[2]
  BY <1>2, InodeCalls
<1>8. /\ main[14] = Lseek(6400) /\ main[15] = Write(LostAndFoundInode, 128, "errno")
      /\ main[16] = Lseek(5248) /\ main[17] = Write(root_inode, 128, "errno")
      /\ main[18] = Lseek(6528) /\ main[19] = Write(HelloWorldInode, 128, "errno")
      /\ main[20] = Lseek(6656) /\ main[21] = Write(HelloInode, 128, "errno")
  BY <1>1, <1>4, <1>5, <1>6, <1>7
     DEF LOST_AND_FOUND_INO, EXT2_ROOT_INO, HELLO_WORLD_INO, HELLO_INO
<1> QED
  BY <1>3, <1>8 DEF SeekTo, WriteOf, TimeAt, Time, Lseek, Write

(* The entries of the root directory and their lengths. *)
RootLen == <<12, 12, 24, 24, 952>>
RootIno == <<2, 2, 11, 12, 13>>
RootName == <<".", "..", "lost+found", "hello-world", "hello">>

LEMMA RootEntriesAre ==
  \A i \in 1..5 : RootEntries[i] = Entry(RootIno[i], RootLen[i], RootName[i])
<1>1. root_rec_len("lost+found") = 24 /\ root_rec_len("hello-world") = 24
  BY DEF root_rec_len, strlen
<1>2. /\ RootEntries[1] = Entry(2, 12, ".") /\ RootEntries[2] = Entry(2, 12, "..")
      /\ RootEntries[3] = Entry(11, 24, "lost+found")
      /\ RootEntries[4] = Entry(12, 24, "hello-world")
      /\ RootEntries[5] = Entry(13, 952, "hello")
  BY <1>1 DEF RootEntries, EXT2_ROOT_INO, LOST_AND_FOUND_INO, HELLO_WORLD_INO, HELLO_INO,
     BLOCK_SIZE
<1>3. /\ RootIno[1] = 2 /\ RootIno[2] = 2 /\ RootIno[3] = 11 /\ RootIno[4] = 12
      /\ RootIno[5] = 13
      /\ RootLen[1] = 12 /\ RootLen[2] = 12 /\ RootLen[3] = 24 /\ RootLen[4] = 24
      /\ RootLen[5] = 952
  BY DEF RootIno, RootLen
<1>4. /\ RootName[1] = "." /\ RootName[2] = ".." /\ RootName[3] = "lost+found"
      /\ RootName[4] = "hello-world" /\ RootName[5] = "hello"
  BY DEF RootName
<1> QED
  BY <1>2, <1>3, <1>4

LEMMA RootDirCalls ==
  /\ SeekTo(22, 21504)
  /\ \A i \in 1..5 : /\ WriteOf(22 + i, RootLen[i])
                     /\ main[22 + i].what = Entry(RootIno[i], RootLen[i], RootName[i])
<1>1. main[22] = write_root_dir_block[1]
      /\ \A i \in 1..5 : main[22 + i] = write_root_dir_block[1 + i]
  BY MainParts
<1>2. main[22] = Lseek(21504)
  BY <1>1, RootCalls DEF BLOCK_OFFSET, ROOT_DIR_BLOCKNO, BLOCK_SIZE
<1>3. ASSUME NEW i \in 1..5
      PROVE  /\ WriteOf(22 + i, RootLen[i])
             /\ main[22 + i].what = Entry(RootIno[i], RootLen[i], RootName[i])
  <2>1. main[22 + i] = Write(RootEntries[i], RootEntries[i].rec_len, "EXIT_FAILURE")
    BY <1>1, RootCalls
  <2>2. RootEntries[i] = Entry(RootIno[i], RootLen[i], RootName[i])
    BY RootEntriesAre
  <2>3. RootEntries[i].rec_len = RootLen[i]
    BY <2>2 DEF Entry
  <2> QED  BY <2>1, <2>2, <2>3 DEF WriteOf, Write
<1> QED
  BY <1>2, <1>3 DEF SeekTo, Lseek

(* The entries of lost+found; the last has no inode. *)
FillEntry == Entry(0, 1000, "")
LostEntry == <<Entry(11, 12, "."), Entry(2, 12, ".."), FillEntry>>
LostBytes == <<12, 12, 6>>

LEMMA LostDirCalls ==
  /\ SeekTo(28, 22528)
  /\ \A i \in 1..3 : WriteOf(28 + i, LostBytes[i]) /\ main[28 + i].what = LostEntry[i]
<1> DEFINE current == dir_entry_set(LOST_AND_FOUND_INO, ".")
           parent == dir_entry_set(EXT2_ROOT_INO, "..")
<1>1. main[28] = write_lost_and_found_dir_block[1]
      /\ \A i \in 1..3 : main[28 + i] = write_lost_and_found_dir_block[1 + i]
  BY MainParts
<1>2. main[29] = write_lost_and_found_dir_block[2]
      /\ main[30] = write_lost_and_found_dir_block[3]
      /\ main[31] = write_lost_and_found_dir_block[4]
  BY <1>1
<1>3. current = Entry(11, 12, ".") /\ parent = Entry(2, 12, "..")
  BY DEF dir_entry_set, strlen, LOST_AND_FOUND_INO, EXT2_ROOT_INO
<1>4. current.rec_len = 12 /\ parent.rec_len = 12
  BY <1>3 DEF Entry
<1>5. write_lost_and_found_dir_block =
        <<Lseek(BLOCK_OFFSET(LOST_AND_FOUND_DIR_BLOCKNO)),
          dir_entry_write(current), dir_entry_write(parent),
          dir_entry_write_fill(BLOCK_SIZE - current.rec_len - parent.rec_len)>>
  BY Zenon DEF write_lost_and_found_dir_block
<1> HIDE DEF current, parent
<1>6. /\ main[28] = Lseek(22528)
      /\ main[29] = dir_entry_write(current) /\ main[30] = dir_entry_write(parent)
      /\ main[31] = dir_entry_write_fill(1000)
  BY <1>1, <1>2, <1>4, <1>5 DEF BLOCK_OFFSET, LOST_AND_FOUND_DIR_BLOCKNO, BLOCK_SIZE
<1>7. /\ main[29] = Write(current, 12, "errno")
      /\ main[30] = Write(parent, 12, "errno")
      /\ main[31] = Write(FillEntry, 6, "errno")
  <2>1. dir_entry_write(current) = Write(current, current.rec_len, "errno")
        /\ dir_entry_write(parent) = Write(parent, parent.rec_len, "errno")
    BY Zenon DEF dir_entry_write
  <2>2. dir_entry_write_fill(1000) = Write(FillEntry, 6, "errno")
    BY Zenon DEF dir_entry_write_fill, FillEntry
  <2> QED  BY <1>4, <1>6, <2>1, <2>2
<1>8. /\ LostBytes[1] = 12 /\ LostBytes[2] = 12 /\ LostBytes[3] = 6
      /\ LostEntry[1] = current /\ LostEntry[2] = parent /\ LostEntry[3] = FillEntry
  BY <1>3 DEF LostBytes, LostEntry
<1>9. /\ WriteOf(29, 12) /\ WriteOf(30, 12) /\ WriteOf(31, 6)
      /\ main[29].what = current /\ main[30].what = parent /\ main[31].what = FillEntry
  BY <1>7, WriteIs
<1>10. ASSUME NEW i \in 1..3
       PROVE  WriteOf(28 + i, LostBytes[i]) /\ main[28 + i].what = LostEntry[i]
  <2>1. i = 1 \/ i = 2 \/ i = 3
    OBVIOUS
  <2> QED  BY <1>8, <1>9, <2>1
<1> QED
  BY <1>6, <1>10 DEF SeekTo, Lseek

HelloText == [is |-> "text", text |-> "Hello world\n"]

LEMMA HelloCalls ==
  /\ SeekTo(32, 23552) /\ WriteOf(33, 12) /\ main[33].what = HelloText
<1>1. main[32] = write_hello_world_file_block[1]
      /\ main[33] = write_hello_world_file_block[2]
  BY MainParts
<1>2. strlen["Hello world\n"] = 12
  BY DEF strlen
<1>3. write_hello_world_file_block =
        <<Lseek(BLOCK_OFFSET(HELLO_WORLD_FILE_BLOCKNO)), Write(HelloText, 12, "EXIT_FAILURE")>>
  BY <1>2, Zenon DEF write_hello_world_file_block, HelloText
<1>4. main[32] = Lseek(23552) /\ main[33] = Write(HelloText, 12, "EXIT_FAILURE")
  BY <1>1, <1>3 DEF BLOCK_OFFSET, HELLO_WORLD_FILE_BLOCKNO, BLOCK_SIZE
<1>5. WriteOf(33, 12) /\ main[33].what = HelloText
  BY <1>4, WriteIs
<1> QED
  BY <1>4, <1>5 DEF SeekTo, Lseek

-----------------------------------------------------------------------------
(* What each call does to the offset and to the number of writes *)

InFile(x) == x \in Nat /\ x <= 23552
InCall(x) == x \in Nat /\ 1 <= x /\ x <= 1052

Seeks(p) ==
  /\ main[p].call = "lseek" /\ Done[p + 1] = Done[p] /\ Fd[p + 1] = main[p].to
  /\ InFile(Fd[p + 1])
Waits(p) ==
  main[p].call = "time" /\ Done[p + 1] = Done[p] /\ Fd[p + 1] = Fd[p]
Writes(p) ==
  /\ main[p].call = "write" /\ InCall(main[p].len)
  /\ Done[p + 1] = Done[p] + 1 /\ Done[p] \in 0..16 /\ Place[Done[p] + 1] = p
  /\ InFile(Fd[p]) /\ Fd[p + 1] = Fd[p] + main[p].len

LEMMA RootDirTable == \A p \in 23..27 : Writes(p)
<1>1. ASSUME NEW i \in 1..5, NEW p, p = 22 + i
      PROVE  Writes(p)
  <2>1. main[p].call = "write" /\ main[p].len = RootLen[i]
    BY <1>1, RootDirCalls DEF WriteOf
  <2>2. CASE i = 1
    <3>1. p = 23 /\ RootLen[i] = 12
      BY <1>1, <2>2 DEF RootLen
    <3> QED  BY <2>1, <3>1 DEF Writes, Done, Fd, Place, InFile, InCall
  <2>3. CASE i = 2
    <3>1. p = 24 /\ RootLen[i] = 12
      BY <1>1, <2>3 DEF RootLen
    <3> QED  BY <2>1, <3>1 DEF Writes, Done, Fd, Place, InFile, InCall
  <2>4. CASE i = 3
    <3>1. p = 25 /\ RootLen[i] = 24
      BY <1>1, <2>4 DEF RootLen
    <3> QED  BY <2>1, <3>1 DEF Writes, Done, Fd, Place, InFile, InCall
  <2>5. CASE i = 4
    <3>1. p = 26 /\ RootLen[i] = 24
      BY <1>1, <2>5 DEF RootLen
    <3> QED  BY <2>1, <3>1 DEF Writes, Done, Fd, Place, InFile, InCall
  <2>6. CASE i = 5
    <3>1. p = 27 /\ RootLen[i] = 952
      BY <1>1, <2>6 DEF RootLen
    <3> QED  BY <2>1, <3>1 DEF Writes, Done, Fd, Place, InFile, InCall
  <2> QED  BY <2>2, <2>3, <2>4, <2>5, <2>6
<1> QED
  <2> TAKE p \in 23..27
  <2>1. p - 22 \in 1..5 /\ p = 22 + (p - 22)
    OBVIOUS
  <2> QED  BY <1>1, <2>1

LEMMA LostDirTable == \A p \in 29..31 : Writes(p)
<1>1. ASSUME NEW i \in 1..3, NEW p, p = 28 + i
      PROVE  Writes(p)
  <2>1. main[p].call = "write" /\ main[p].len = LostBytes[i]
    BY <1>1, LostDirCalls DEF WriteOf
  <2>2. CASE i = 1
    <3>1. p = 29 /\ LostBytes[i] = 12
      BY <1>1, <2>2 DEF LostBytes
    <3> QED  BY <2>1, <3>1 DEF Writes, Done, Fd, Place, InFile, InCall
  <2>3. CASE i = 2
    <3>1. p = 30 /\ LostBytes[i] = 12
      BY <1>1, <2>3 DEF LostBytes
    <3> QED  BY <2>1, <3>1 DEF Writes, Done, Fd, Place, InFile, InCall
  <2>4. CASE i = 3
    <3>1. p = 31 /\ LostBytes[i] = 6
      BY <1>1, <2>4 DEF LostBytes
    <3> QED  BY <2>1, <3>1 DEF Writes, Done, Fd, Place, InFile, InCall
  <2> QED  BY <2>2, <2>3, <2>4
<1> QED
  <2> TAKE p \in 29..31
  <2>1. p - 28 \in 1..3 /\ p = 28 + (p - 28)
    OBVIOUS
  <2> QED  BY <1>1, <2>1

LEMMA AllCalls ==
  /\ Seeks(4) /\ Waits(5) /\ Writes(6) /\ Seeks(7) /\ Writes(8)
  /\ Seeks(9) /\ Writes(10) /\ Seeks(11) /\ Writes(12)
  /\ Waits(13) /\ Seeks(14) /\ Writes(15) /\ Seeks(16) /\ Writes(17)
  /\ Seeks(18) /\ Writes(19) /\ Seeks(20) /\ Writes(21)
  /\ Seeks(22) /\ Seeks(28) /\ Seeks(32) /\ Writes(33)
<1>1. /\ Seeks(4) /\ Waits(5) /\ Writes(6) /\ Seeks(7) /\ Writes(8)
      /\ Seeks(9) /\ Writes(10) /\ Seeks(11) /\ Writes(12)
  BY MapCalls DEF SeekTo, WriteOf, TimeAt, Seeks, Waits, Writes, Done, Fd, Place,
     InFile, InCall
<1>2. /\ Waits(13) /\ Seeks(14) /\ Writes(15) /\ Seeks(16) /\ Writes(17)
      /\ Seeks(18) /\ Writes(19) /\ Seeks(20) /\ Writes(21)
  BY InodeTableCalls DEF SeekTo, WriteOf, TimeAt, Seeks, Waits, Writes, Done, Fd, Place,
     InFile, InCall
<1>3. Seeks(22) /\ Seeks(28) /\ Seeks(32) /\ Writes(33)
  BY RootDirCalls, LostDirCalls, HelloCalls
     DEF SeekTo, WriteOf, Seeks, Writes, Done, Fd, Place, InFile, InCall
<1> QED
  BY <1>1, <1>2, <1>3

LEMMA Table == \A p \in 4..33 : Seeks(p) \/ Waits(p) \/ Writes(p)
<1> TAKE p \in 4..33
<1>1. CASE p \in 4..12
  BY <1>1, AllCalls
<1>2. CASE p \in 13..21
  BY <1>2, AllCalls
<1>3. CASE p \in 22..33
  BY <1>3, AllCalls, RootDirTable, LostDirTable
<1> QED
  BY <1>1, <1>2, <1>3

(* The writes are where Place says, and in this order. *)
LEMMA Placed == \A k \in 1..17 : Place[k] \in 6..33 /\ Writes(Place[k]) /\ Done[Place[k]] = k - 1
<1> TAKE k \in 1..17
<1>1. CASE k \in 1..4
  <2>1. Place[1] = 6 /\ Place[2] = 8 /\ Place[3] = 10 /\ Place[4] = 12
    BY DEF Place
  <2>2. Done[6] = 0 /\ Done[8] = 1 /\ Done[10] = 2 /\ Done[12] = 3
    BY DEF Done
  <2> QED  BY <1>1, <2>1, <2>2, AllCalls
<1>2. CASE k \in 5..8
  <2>1. Place[5] = 15 /\ Place[6] = 17 /\ Place[7] = 19 /\ Place[8] = 21
    BY DEF Place
  <2>2. Done[15] = 4 /\ Done[17] = 5 /\ Done[19] = 6 /\ Done[21] = 7
    BY DEF Done
  <2> QED  BY <1>2, <2>1, <2>2, AllCalls
<1>3. CASE k \in 9..13
  <2>1. /\ Place[9] = 23 /\ Place[10] = 24 /\ Place[11] = 25 /\ Place[12] = 26
        /\ Place[13] = 27
    BY DEF Place
  <2>2. Done[23] = 8 /\ Done[24] = 9 /\ Done[25] = 10 /\ Done[26] = 11 /\ Done[27] = 12
    BY DEF Done
  <2> QED  BY <1>3, <2>1, <2>2, RootDirTable
<1>4. CASE k \in 14..16
  <2>1. Place[14] = 29 /\ Place[15] = 30 /\ Place[16] = 31
    BY DEF Place
  <2>2. Done[29] = 13 /\ Done[30] = 14 /\ Done[31] = 15
    BY DEF Done
  <2> QED  BY <1>4, <2>1, <2>2, LostDirTable
<1>5. CASE k = 17
  <2>1. Place[17] = 33 /\ Done[33] = 16
    BY DEF Place, Done
  <2> QED  BY <1>5, <2>1, AllCalls
<1> QED
  BY <1>1, <1>2, <1>3, <1>4, <1>5

(* The tables themselves. *)
LEMMA TablesAre ==
  /\ \A p \in 1..4 : Done[p] = 0 /\ Fd[p] = 0
  /\ Done[34] = 17 /\ Fd[34] = 23564
  /\ Done[35] = 17 /\ Fd[35] = 23564
  /\ \A p \in 1..35 : Done[p] \in 0..17
<1>1. \A p \in 1..4 : Done[p] = 0 /\ Fd[p] = 0
  BY DEF Done, Fd
<1>2. Done[34] = 17 /\ Fd[34] = 23564 /\ Done[35] = 17 /\ Fd[35] = 23564
  BY DEF Done, Fd
<1>3. \A p \in 1..35 : Done[p] \in 0..17
  BY DEF Done
<1> QED
  BY <1>1, <1>2, <1>3

(* The other calls of main. *)
LEMMA Ends ==
  /\ Len(main) = 34
  /\ main[1].call = "open" /\ main[2].call = "ftruncate" /\ main[2].len = 0
  /\ main[3].call = "ftruncate" /\ main[3].len = NUM_BLOCKS * BLOCK_SIZE
  /\ main[34].call = "close"
<1>1. Len(main) = 34
  <2>1. Tuple(main, 34)
    BY MainParts, Zenon
  <2> QED  BY <2>1, TupleLen
<1>2. /\ main[1] = Open /\ main[2] = Ftruncate(0) /\ main[34] = Close
      /\ main[3] = Ftruncate(NUM_BLOCKS * BLOCK_SIZE)
  BY MainParts
<1> QED
  BY <1>1, <1>2 DEF Open, Ftruncate, Close
-----------------------------------------------------------------------------
(* The image that main writes *)

LEMMA ImageTypes ==
  ASSUME NEW k \in 1..17
  PROVE  /\ Image[k] = [at |-> Fd[Place[k]], len |-> main[Place[k]].len,
                        what |-> main[Place[k]].what]
         /\ InFile(Image[k].at) /\ InCall(Image[k].len)
<1>1. Image[k] = [at |-> Fd[Place[k]], len |-> main[Place[k]].len,
                  what |-> main[Place[k]].what]
  BY DEF Image
<1>2. Writes(Place[k])
  BY Placed
<1>3. InFile(Fd[Place[k]]) /\ InCall(main[Place[k]].len)
  BY <1>2 DEF Writes
<1>4. Image[k].at = Fd[Place[k]] /\ Image[k].len = main[Place[k]].len
  BY <1>1
<1> QED
  BY <1>1, <1>3, <1>4

LEMMA SizeIs == FileSize \in Nat /\ 24604 <= FileSize
BY SMT DEF FileSize, NUM_BLOCKS, BLOCK_SIZE

LEMMA PrefixTyped ==
  ASSUME NEW n \in 0..17
  PROVE  WritesTyped(Prefix(n)) /\ Tuple(Prefix(n).writes, n)
<1>1. Tuple(Prefix(n).writes, n)
  BY DEF Tuple, Prefix
<1>2. Len(Prefix(n).writes) = n
  BY <1>1, TupleLen
<1>3. Prefix(n).size = FileSize
  BY DEF Prefix
<1>4. \A i \in 1..n : Prefix(n).writes[i] = Image[i]
  BY DEF Prefix
<1>5. \A i \in 1..n :
        /\ Image[i].at \in Nat /\ Image[i].len \in Nat \ {0}
        /\ Image[i].at + Image[i].len <= FileSize
  <2> TAKE i \in 1..n
  <2>1. InFile(Image[i].at) /\ InCall(Image[i].len)
    BY ImageTypes
  <2> QED  BY <2>1, SizeIs DEF InFile, InCall
<1>6. DOMAIN Prefix(n).writes = 1..n
  BY DEF Prefix
<1> QED
  BY <1>1, <1>2, <1>3, <1>4, <1>5, <1>6, SizeIs DEF WritesTyped

(* u is the tuple s of length n with x behind it. *)
Extended(u, s, n, x) ==
  Tuple(u, n + 1) /\ u[n + 1] = x /\ \A i \in 1..n : u[i] = s[i]

LEMMA Longer ==
  ASSUME NEW s, NEW n, Tuple(s, n), NEW x
  PROVE  Extended(Append(s, x), s, n, x)
<1> DEFINE S == {s[i] : i \in 1..n} \cup {x}
<1>1. s \in Seq(S) /\ Len(s) = n /\ n \in Nat
  <2>1. [i \in 1..n |-> s[i]] \in [1..n -> S]
    OBVIOUS
  <2> QED  BY <2>1 DEF Tuple
<1>2. x \in S
  OBVIOUS
<1> HIDE DEF S
<1>3. /\ Append(s, x) \in Seq(S) /\ Len(Append(s, x)) = n + 1
      /\ \A i \in 1..n : Append(s, x)[i] = s[i]
      /\ Append(s, x)[n + 1] = x
  BY <1>1, <1>2
<1> QED
  BY <1>1, <1>3 DEF Tuple, Extended

LEMMA MaxOfTwo ==
  ASSUME NEW a \in Nat, NEW b \in Nat
  PROVE  /\ Max({a, b}) \in Nat /\ a <= Max({a, b}) /\ b <= Max({a, b})
         /\ b <= a => Max({a, b}) = a
<1>1. Max({a, b}) = CHOOSE x \in {a, b} : \A y \in {a, b} : x >= y
  BY DEF Max
<1>2. \E x \in {a, b} : \A y \in {a, b} : x >= y
  OBVIOUS
<1> QED
  BY <1>1, <1>2

(* What a write leaves of a file. *)
LEMMA AppendTyped ==
  ASSUME NEW file, WritesTyped(file), NEW at \in Nat, NEW n \in Nat \ {0}, NEW what,
         NEW new,
         new = [size |-> Max({file.size, at + n}),
                writes |-> Append(file.writes, [at |-> at, len |-> n, what |-> what])]
  PROVE  WritesTyped(new)
<1> DEFINE x == [at |-> at, len |-> n, what |-> what]
           len == Len(file.writes)
           v == Append(file.writes, x)
<1>1. Tuple(v, len + 1) /\ v[len + 1] = x /\ \A i \in 1..len : v[i] = file.writes[i]
  <2>1. Tuple(file.writes, len)
    BY DEF WritesTyped
  <2> HIDE DEF x, len
  <2>2. Extended(v, file.writes, len, x)
    BY <2>1, Longer
  <2> HIDE DEF v
  <2> QED  BY <2>2 DEF Extended
<1>2. x.at = at /\ x.len = n
  OBVIOUS
<1>3. len \in Nat /\ DOMAIN file.writes = 1..len
  BY DEF WritesTyped, Tuple
<1>4. new.writes = v /\ new.size = Max({file.size, at + n})
  OBVIOUS
<1> HIDE DEF v, x
<1>5. /\ new.size \in Nat /\ file.size <= new.size /\ at + n <= new.size
  <2>1. file.size \in Nat /\ at + n \in Nat
    BY DEF WritesTyped
  <2> QED  BY <1>4, <2>1, MaxOfTwo
<1>6. Len(v) = len + 1 /\ DOMAIN v = 1..(len + 1)
  BY <1>1, TupleLen DEF Tuple
<1>7. ASSUME NEW i \in 1..(len + 1)
      PROVE  v[i].at \in Nat /\ v[i].len \in Nat \ {0} /\ v[i].at + v[i].len <= new.size
  <2>1. CASE i = len + 1
    BY <1>1, <1>2, <1>5, <2>1
  <2>2. CASE i # len + 1
    <3>1. i \in 1..len
      BY <1>3, <2>2
    <3>2. v[i] = file.writes[i]
      BY <1>1, <3>1
    <3>3. v[i].at \in Nat /\ v[i].len \in Nat \ {0} /\ v[i].at + v[i].len <= file.size
      BY <1>3, <3>1, <3>2 DEF WritesTyped
    <3>4. file.size \in Nat
      BY DEF WritesTyped
    <3> QED  BY <1>5, <3>3, <3>4
  <2> QED  BY <2>1, <2>2
<1> HIDE DEF len
<1> QED
  BY <1>1, <1>4, <1>5, <1>6, <1>7 DEF WritesTyped
-----------------------------------------------------------------------------
(* What the two truncations leave *)

(* Induction over the naturals, with a set for the predicate. *)
LEMMA NatSetInduction ==
  ASSUME NEW S, 0 \in S, \A n \in Nat : n \in S => n + 1 \in S
  PROVE  Nat \subseteq S
<1> DEFINE T == Nat \ S
<1>1. SUFFICES ASSUME T # {} PROVE FALSE
  BY Zenon
<1>2. PICK x \in T : \A y \in T : ~(<<y, x>> \in OpToRel(<, Nat))
  BY <1>1, NatLessThanWellFounded, WFMin, Zenon
<1>3. x # 0 /\ x \in Nat
  OBVIOUS
<1>4. x - 1 \in T
  BY <1>3
<1>5. <<x - 1, x>> \in OpToRel(<, Nat)
  BY <1>3 DEF OpToRel
<1> QED
  BY <1>2, <1>4, <1>5

(* The function that Truncated chooses: what is left of the first i writes. *)
Step(f, w, n, i) ==
  IF i = 0 THEN <<>>
  ELSE IF w[i].at < n
       THEN Append(f[i - 1], [w[i] EXCEPT !.len = Min({w[i].len, n - w[i].at})])
       ELSE f[i - 1]
Kept(w, n) == CHOOSE f : f = [i \in 0..Len(w) |-> Step(f, w, n, i)]

LEMMA TruncatedIs ==
  ASSUME NEW file, NEW n
  PROVE  Truncated(file, n) =
           [size |-> n, writes |-> Kept(file.writes, n)[Len(file.writes)]]
BY Zenon DEF Truncated, Kept, Step

LEMMA KeptIs ==
  ASSUME NEW w, NEW n, NEW g, g = [i \in 0..Len(w) |-> Step(g, w, n, i)],
         NEW f, f = Kept(w, n)
  PROVE  \A i \in 0..Len(w) : f[i] = Step(f, w, n, i)
<1>1. f = [i \in 0..Len(w) |-> Step(f, w, n, i)]
  BY Zenon DEF Kept
<1> QED
  BY <1>1, Zenon

(* Nothing of a file begins below 0. *)
LEMMA TruncatedToNothing ==
  ASSUME NEW file, WritesTyped(file)
  PROVE  Truncated(file, 0) = [size |-> 0, writes |-> <<>>]
<1> DEFINE w == file.writes
           none == [i \in 0..Len(w) |-> <<>>]
           kept == Kept(w, 0)
<1>1. \A i \in 1..Len(w) : ~(w[i].at < 0)
  BY DEF WritesTyped, Tuple
<1>2. Len(w) \in Nat
  BY DEF WritesTyped, Tuple
<1> HIDE DEF w
<1>3. none = [i \in 0..Len(w) |-> Step(none, w, 0, i)]
  <2>1. \A i \in 0..Len(w) : Step(none, w, 0, i) = <<>>
    BY <1>1, <1>2 DEF Step
  <2> QED  BY <2>1
<1> HIDE DEF none
<1>4. \A i \in 0..Len(w) : kept[i] = Step(kept, w, 0, i)
  <2>1. kept = Kept(w, 0)
    OBVIOUS
  <2> HIDE DEF kept
  <2> QED  BY <1>3, <2>1, KeptIs
<1> HIDE DEF kept
<1> DEFINE S == {n \in Nat : n <= Len(w) => kept[n] = <<>>}
<1>5. 0 \in S
  <2>1. 0 \in 0..Len(w)
    BY <1>2
  <2>2. kept[0] = Step(kept, w, 0, 0)
    BY <1>4, <2>1
  <2>3. kept[0] = <<>>
    BY <2>2 DEF Step
  <2> QED  BY <2>3
<1>6. ASSUME NEW n \in Nat, n \in S
      PROVE  n + 1 \in S
  <2>1. CASE n + 1 <= Len(w)
    <3>1. kept[n] = <<>> /\ n + 1 \in 0..Len(w) /\ n + 1 \in 1..Len(w) /\ (n + 1) - 1 = n
      BY <1>2, <1>6, <2>1
    <3>2. kept[n + 1] = Step(kept, w, 0, n + 1)
      BY <1>4, <3>1
    <3>3. ~(w[n + 1].at < 0) /\ n + 1 # 0
      BY <1>1, <3>1
    <3>4. Step(kept, w, 0, n + 1) = kept[n]
      BY <3>1, <3>3 DEF Step
    <3> QED  BY <3>1, <3>2, <3>4
  <2>2. CASE ~(n + 1 <= Len(w))
    BY <2>2
  <2> QED  BY <2>1, <2>2
<1> HIDE DEF S
<1>7. Nat \subseteq S
  BY <1>5, <1>6, NatSetInduction, Zenon
<1>8. kept[Len(w)] = <<>>
  BY <1>2, <1>7 DEF S
<1> QED
  BY <1>8, TruncatedIs DEF w, kept

(* A file without writes has none when it grows. *)
LEMMA TruncatedFromNothing ==
  ASSUME NEW file, file = [size |-> 0, writes |-> <<>>], NEW n
  PROVE  Truncated(file, n) = [size |-> n, writes |-> <<>>]
<1> DEFINE w == file.writes
           none == [i \in 0..Len(w) |-> <<>>]
           kept == Kept(w, n)
<1>1. Len(w) = 0
  OBVIOUS
<1> HIDE DEF w
<1>2. none = [i \in 0..Len(w) |-> Step(none, w, n, i)]
  <2>1. \A i \in 0..Len(w) : Step(none, w, n, i) = <<>>
    BY <1>1 DEF Step
  <2> QED  BY <2>1
<1> HIDE DEF none
<1>3. \A i \in 0..Len(w) : kept[i] = Step(kept, w, n, i)
  <2>1. kept = Kept(w, n)
    OBVIOUS
  <2> HIDE DEF kept
  <2> QED  BY <1>2, <2>1, KeptIs
<1> HIDE DEF kept
<1>4. kept[Len(w)] = <<>>
  BY <1>1, <1>3 DEF Step
<1> QED
  BY <1>4, TruncatedIs DEF w, kept
-----------------------------------------------------------------------------
(* Every step keeps the invariant *)

(* The write that comes next makes the prefix longer by one. *)
LEMMA PrefixNext ==
  ASSUME NEW p, Writes(p), NEW what, what = main[p].what
  PROVE  [size |-> Max({Prefix(Done[p]).size, Fd[p] + main[p].len}),
          writes |-> Append(Prefix(Done[p]).writes,
                            [at |-> Fd[p], len |-> main[p].len, what |-> what])]
           = Prefix(Done[p + 1])
<1> DEFINE n == Done[p]
           x == [at |-> Fd[p], len |-> main[p].len, what |-> what]
           u == Append(Prefix(n).writes, x)
<1>1. n \in 0..16 /\ Done[p + 1] = n + 1 /\ Place[n + 1] = p
  BY DEF Writes
<1>2. Image[n + 1] = x
  <2>1. n + 1 \in 1..17
    BY <1>1
  <2> QED  BY <1>1, <2>1, ImageTypes
<1>3. Tuple(Prefix(n).writes, n) /\ Prefix(n).size = FileSize
  <2>1. n \in 0..17
    BY <1>1
  <2> HIDE DEF n
  <2> QED  BY <2>1, PrefixTyped DEF Prefix
<1>4. Max({FileSize, Fd[p] + main[p].len}) = FileSize
  <2>1. InFile(Fd[p]) /\ InCall(main[p].len)
    BY DEF Writes
  <2>2. Fd[p] + main[p].len \in Nat /\ Fd[p] + main[p].len <= FileSize
    BY <2>1, SizeIs DEF InFile, InCall
  <2> QED  BY <2>2, SizeIs, MaxOfTwo
<1>5. Extended(u, Prefix(n).writes, n, x)
  <2> HIDE DEF x, n
  <2> QED  BY <1>3, Longer
<1>6. \A k \in 1..n : Prefix(n).writes[k] = Image[k]
  BY DEF Prefix
<1> HIDE DEF u, x, n
<1>7. u = [k \in 1..(n + 1) |-> Image[k]]
  <2>1. u = [k \in 1..(n + 1) |-> u[k]]
    BY <1>5 DEF Extended, Tuple
  <2>2. \A k \in 1..(n + 1) : u[k] = Image[k]
    <3> TAKE k \in 1..(n + 1)
    <3>1. CASE k = n + 1
      BY <1>2, <1>5, <3>1 DEF Extended
    <3>2. CASE k # n + 1
      <4>1. k \in 1..n
        BY <1>1, <3>2
      <4> QED  BY <1>5, <1>6, <4>1 DEF Extended
    <3> QED  BY <3>1, <3>2
  <2> QED  BY <2>1, <2>2
<1>8. [size |-> FileSize, writes |-> u] = Prefix(n + 1)
  BY <1>7 DEF Prefix
<1> QED
  BY <1>1, <1>3, <1>4, <1>8 DEF u, x, n

(* Which call is where. *)
LEMMA CallAt ==
  ASSUME NEW p \in 1..34
  PROVE  /\ main[p].call = "open" => p = 1
         /\ main[p].call = "ftruncate" => p = 2 \/ p = 3
         /\ main[p].call = "time" => p \in 4..33 /\ Waits(p)
         /\ main[p].call = "lseek" => p \in 4..33 /\ Seeks(p)
         /\ main[p].call = "write" => p \in 4..33 /\ Writes(p)
         /\ main[p].call = "close" => p = 34
<1>1. CASE p \in 1..3
  BY <1>1, Ends
<1>2. CASE p = 34
  BY <1>2, Ends
<1>3. CASE p \in 4..33
  BY <1>3, Table DEF Waits, Seeks, Writes
<1> QED
  BY <1>1, <1>2, <1>3

(* The calls of a run that is on its way. *)
LEMMA RunningAt ==
  ASSUME IInv, Running
  PROVE  /\ pc \in 1..34
         /\ pc > 3 => hello_img = Prefix(Done[pc]) /\ offset = Fd[pc]
<1>1. pc \in 1..34
  BY Ends DEF IInv, ImageSoFar
<1> QED
  BY <1>1 DEF IInv, ImageSoFar

(* A file that somebody else wrote. *)
LEMMA OldTyped ==
  ASSUME NEW n \in Nat
  PROVE  WritesTyped([size |-> n,
                      writes |-> IF n = 0 THEN <<>>
                                 ELSE <<[at |-> 0, len |-> n, what |-> [is |-> "old"]]>>])
<1> DEFINE x == [at |-> 0, len |-> n, what |-> [is |-> "old"]]
<1>1. CASE n = 0
  <2>1. Tuple(<<>>, 0) /\ Len(<<>>) = 0
    BY DEF Tuple
  <2> QED  BY <1>1, <2>1 DEF WritesTyped
<1>2. CASE n # 0
  <2>1. x.at = 0 /\ x.len = n
    OBVIOUS
  <2> HIDE DEF x
  <2>2. Tuple(<<x>>, 1) /\ Len(<<x>>) = 1 /\ DOMAIN <<x>> = 1..1 /\ <<x>>[1] = x
    BY Tuples
  <2>3. WritesTyped([size |-> n, writes |-> <<x>>])
    BY <1>2, <2>1, <2>2 DEF WritesTyped
  <2> QED  BY <1>2, <2>3 DEF x
<1> QED
  BY <1>1, <1>2

LEMMA OldFilesTyped ==
  ASSUME NEW file \in OldFiles
  PROVE  WritesTyped(file)
<1>1. PICK n \in OldSizes \cup {0} :
        file = [size |-> n,
                writes |-> IF n = 0 THEN <<>>
                           ELSE <<[at |-> 0, len |-> n, what |-> [is |-> "old"]]>>]
  BY DEF OldFiles
<1>2. n \in Nat
  BY OldSizesAssumption DEF OldSizesAssumption
<1> QED
  BY <1>1, <1>2, OldTyped

LEMMA InitInv == Init => IInv
<1> SUFFICES ASSUME Init PROVE IInv
  OBVIOUS
<1>1. WritesTyped(hello_img)
  BY OldFilesTyped DEF Init
<1> QED
  BY <1>1, Ends, SizeIs DEF Init, IInv, ImageSoFar, Running, Completed

LEMMA ExecStep == IInv /\ exec => IInv'
<1> SUFFICES ASSUME IInv, exec PROVE IInv'
  OBVIOUS
<1> QED
  BY Ends, SizeIs DEF IInv, ImageSoFar, exec, Running, Completed

LEMMA OpenStep == IInv /\ open => IInv'
<1> SUFFICES ASSUME IInv, open PROVE IInv'
  OBVIOUS
<1>1. pc = 1
  BY RunningAt, CallAt DEF open, Calling
<1> QED
  BY <1>1, Ends DEF IInv, ImageSoFar, open, Calling, Running, Completed

LEMMA FtruncateStep == IInv /\ ftruncate => IInv'
<1> SUFFICES ASSUME IInv, ftruncate PROVE IInv'
  OBVIOUS
<1>1. Running /\ (pc = 2 \/ pc = 3)
  BY RunningAt, CallAt DEF ftruncate, Calling
<1>2. CASE pc = 2
  <2>1. hello_img' = [size |-> 0, writes |-> <<>>]
    BY <1>2, Ends, TruncatedToNothing DEF IInv, ftruncate
  <2>2. WritesTyped(hello_img')
    BY <2>1, OldTyped
  <2> QED
    BY <1>1, <1>2, <2>1, <2>2, Ends DEF IInv, ImageSoFar, ftruncate, Running, Completed
<1>3. CASE pc = 3
  <2>1. hello_img' = [size |-> FileSize, writes |-> <<>>]
    BY <1>1, <1>3, Ends, TruncatedFromNothing DEF IInv, ImageSoFar, ftruncate, FileSize
  <2>2. hello_img' = Prefix(0)
    BY <2>1 DEF Prefix
  <2>3. Done[4] = 0 /\ Fd[4] = 0
    BY TablesAre
  <2>4. WritesTyped(hello_img')
    BY <2>2, PrefixTyped
  <2>5. pc' = 4 /\ offset' = 0 /\ status' = "running"
    BY <1>1, <1>3 DEF IInv, ImageSoFar, ftruncate, Running
  <2> QED
    BY <2>2, <2>3, <2>4, <2>5, Ends, SizeIs DEF IInv, ImageSoFar, Running, Completed
<1> QED
  BY <1>1, <1>2, <1>3

LEMMA TimeStep == IInv /\ time => IInv'
<1> SUFFICES ASSUME IInv, time PROVE IInv'
  OBVIOUS
<1>1. Running /\ pc \in 4..33 /\ Waits(pc)
  BY RunningAt, CallAt DEF time, Calling
<1>2. hello_img = Prefix(Done[pc]) /\ offset = Fd[pc]
  BY <1>1, RunningAt
<1>3. hello_img' = Prefix(Done[pc']) /\ offset' = Fd[pc']
  BY <1>1, <1>2 DEF time, Waits
<1> QED
  BY <1>1, <1>3, Ends DEF IInv, ImageSoFar, time, Running, Completed

LEMMA LseekStep == IInv /\ lseek => IInv'
<1> SUFFICES ASSUME IInv, lseek PROVE IInv'
  OBVIOUS
<1>1. Running /\ pc \in 4..33 /\ Seeks(pc)
  BY RunningAt, CallAt DEF lseek, Calling
<1>2. hello_img = Prefix(Done[pc]) /\ offset = Fd[pc]
  BY <1>1, RunningAt
<1>3. hello_img' = Prefix(Done[pc']) /\ offset' = Fd[pc']
  BY <1>1, <1>2 DEF lseek, Seeks
<1>4. offset' \in Nat /\ offset' <= FileSize
  BY <1>1, SizeIs DEF lseek, Seeks, InFile
<1> QED
  BY <1>1, <1>3, <1>4, Ends DEF IInv, ImageSoFar, lseek, Running, Completed

LEMMA WriteStep == IInv /\ write => IInv'
<1> SUFFICES ASSUME IInv, write PROVE IInv'
  OBVIOUS
<1>1. Running /\ pc \in 4..33 /\ Writes(pc)
  BY RunningAt, CallAt DEF write, Calling
<1>2. hello_img = Prefix(Done[pc]) /\ offset = Fd[pc]
  BY <1>1, RunningAt
<1>3. hello_img' = Prefix(Done[pc + 1])
  BY <1>1, <1>2, PrefixNext DEF write, Written
<1>4. offset' = Fd[pc + 1] /\ offset' \in Nat /\ offset' <= FileSize
  BY <1>1, <1>2, SizeIs DEF write, Written, Writes, InFile, InCall
<1>5. Done[pc + 1] \in 0..17
  BY <1>1 DEF Writes
<1>6. WritesTyped(hello_img')
  BY <1>3, <1>5, PrefixTyped
<1>7. pc' \in 5..34 /\ status' = "running"
  BY <1>1 DEF write, Running
<1>8. hello_img' = Prefix(Done[pc']) /\ offset' = Fd[pc']
  BY <1>3, <1>4 DEF write
<1> QED
  BY <1>4, <1>6, <1>7, <1>8, Ends DEF IInv, ImageSoFar, Running, Completed

LEMMA ShortWriteStep == ASSUME NEW n \in ShortCounts PROVE IInv /\ short_write(n) => IInv'
<1> SUFFICES ASSUME IInv, short_write(n) PROVE IInv'
  OBVIOUS
<1>1. Running /\ pc \in 4..33 /\ Writes(pc)
  BY RunningAt, CallAt DEF short_write, Calling
<1>2. offset = Fd[pc]
  BY <1>1, RunningAt
<1>3. n \in Nat \ {0} /\ n < main[pc].len
  BY DEF ShortCounts, short_write, sizeof_superblock
<1>4. offset \in Nat /\ offset + n \in Nat /\ offset + n <= FileSize
  BY <1>1, <1>2, <1>3, SizeIs DEF Writes, InFile, InCall
<1>5. WritesTyped(hello_img')
  BY <1>3, <1>4, AppendTyped DEF IInv, short_write, Written
<1> QED
  BY <1>1, <1>4, <1>5, Ends DEF IInv, ImageSoFar, short_write, Written, Running, Completed

LEMMA CloseStep == IInv /\ close => IInv'
<1> SUFFICES ASSUME IInv, close PROVE IInv'
  OBVIOUS
<1>1. Running /\ pc = 34
  BY RunningAt, CallAt DEF close, Calling
<1>2. hello_img = Prefix(Done[34]) /\ offset = Fd[34]
  BY <1>1, RunningAt
<1>3. hello_img' = Prefix(Done[35]) /\ offset' = Fd[35] /\ pc' = 35
  BY <1>1, <1>2, TablesAre DEF close
<1> QED
  BY <1>1, <1>3, Ends DEF IInv, ImageSoFar, close, Running, Completed

(* A failed call or a signal ends the run; the next begins with the file as it is. *)
LEMMA EndStep == IInv /\ (fails \/ killed) => IInv'
<1> SUFFICES ASSUME IInv, fails \/ killed PROVE IInv'
  OBVIOUS
<1> QED
  BY Ends DEF IInv, ImageSoFar, fails, killed, Running, Completed

LEMMA ChangedStep == IInv /\ changed => IInv'
<1> SUFFICES ASSUME IInv, changed PROVE IInv'
  OBVIOUS
<1>1. WritesTyped(hello_img')
  BY OldFilesTyped DEF changed
<1> QED
  BY <1>1, Ends, SizeIs DEF IInv, ImageSoFar, changed, Running, Completed

LEMMA NextInv == IInv /\ [Next]_vars => IInv'
<1> SUFFICES ASSUME IInv, [Next]_vars PROVE IInv'
  OBVIOUS
<1>1. CASE UNCHANGED vars
  BY <1>1 DEF vars, IInv, ImageSoFar, Running, Completed
<1>2. CASE Next
  BY <1>2, ExecStep, OpenStep, FtruncateStep, TimeStep, LseekStep, WriteStep,
     ShortWriteStep, CloseStep, EndStep, ChangedStep DEF Next
<1> QED
  BY <1>1, <1>2

LEMMA SpecInv == Spec => []IInv
BY InitInv, NextInv, PTL DEF Spec

(* The file, the offset and the place in main have their types: no write is empty  *)
(* or goes beyond the file, and no offset beyond the file system.                   *)
THEOREM TypeCorrect == Spec => []TypeOK
<1>1. IInv => TypeOK
  BY DEF IInv, TypeOK, WritesTyped, FileSize
<1> QED
  BY <1>1, SpecInv, PTL

(* A completed file. *)
Whole == hello_img = [size |-> FileSize, writes |-> Image]

LEMMA CompletedWhole == IInv /\ Completed => Whole
<1> SUFFICES ASSUME IInv, Completed PROVE Whole
  OBVIOUS
<1>1. pc = 35
  BY Ends DEF IInv, Completed
<1>2. hello_img = Prefix(17)
  BY <1>1, TablesAre DEF IInv, ImageSoFar
<1>3. Image = [k \in 1..17 |-> Image[k]]
  BY DEF Image
<1> QED
  BY <1>2, <1>3 DEF Prefix, Whole

(* Whatever the file was, and wherever earlier runs stopped, a completed run leaves *)
(* the writes of main and nothing else.                                             *)
THEOREM CompletedIsImage ==
  Spec => [](Completed => hello_img = [size |-> NUM_BLOCKS * BLOCK_SIZE, writes |-> Image])
<1>1. IInv => (Completed => hello_img = [size |-> NUM_BLOCKS * BLOCK_SIZE, writes |-> Image])
  BY CompletedWhole, Zenon DEF Whole, FileSize
<1> QED
  BY <1>1, SpecInv, PTL
-----------------------------------------------------------------------------
(* Reading the image *)

(* Where the writes of the image are. *)
Extent(k, a, n) == Image[k].at = a /\ Image[k].len = n

LEMMA Extents ==
  /\ Extent(1, 1024, 1052) /\ Extent(2, 2048, 32)
  /\ Extent(3, 3072, 1024) /\ Extent(4, 4096, 1024)
  /\ Extent(5, 6400, 128) /\ Extent(6, 5248, 128)
  /\ Extent(7, 6528, 128) /\ Extent(8, 6656, 128)
  /\ Extent(9, 21504, 12) /\ Extent(10, 21516, 12) /\ Extent(11, 21528, 24)
  /\ Extent(12, 21552, 24) /\ Extent(13, 21576, 952)
  /\ Extent(14, 22528, 12) /\ Extent(15, 22540, 12) /\ Extent(16, 22552, 6)
  /\ Extent(17, 23552, 12)
<1>1. \A k \in 1..17 : Image[k].at = Fd[Place[k]] /\ Image[k].len = main[Place[k]].len
  BY ImageTypes
<1>2. Extent(1, 1024, 1052) /\ Extent(2, 2048, 32)
  <2>1. Place[1] = 6 /\ Place[2] = 8 /\ Fd[6] = 1024 /\ Fd[8] = 2048
    BY SMT DEF Place, Fd
  <2> QED  BY <1>1, <2>1, MapCalls DEF Extent, WriteOf
<1>3. Extent(3, 3072, 1024) /\ Extent(4, 4096, 1024)
  <2>1. Place[3] = 10 /\ Place[4] = 12 /\ Fd[10] = 3072 /\ Fd[12] = 4096
    BY SMT DEF Place, Fd
  <2> QED  BY <1>1, <2>1, MapCalls DEF Extent, WriteOf
<1>4. Extent(5, 6400, 128) /\ Extent(6, 5248, 128)
  <2>1. Place[5] = 15 /\ Place[6] = 17 /\ Fd[15] = 6400 /\ Fd[17] = 5248
    BY SMT DEF Place, Fd
  <2> QED  BY <1>1, <2>1, InodeTableCalls DEF Extent, WriteOf
<1>5. Extent(7, 6528, 128) /\ Extent(8, 6656, 128)
  <2>1. Place[7] = 19 /\ Place[8] = 21 /\ Fd[19] = 6528 /\ Fd[21] = 6656
    BY SMT DEF Place, Fd
  <2> QED  BY <1>1, <2>1, InodeTableCalls DEF Extent, WriteOf
<1>6. /\ Extent(9, 21504, 12) /\ Extent(10, 21516, 12) /\ Extent(11, 21528, 24)
      /\ Extent(12, 21552, 24) /\ Extent(13, 21576, 952)
  <2>1. /\ Place[9] = 23 /\ Place[10] = 24 /\ Place[11] = 25 /\ Place[12] = 26
        /\ Place[13] = 27
    BY SMT DEF Place
  <2>2. /\ Fd[23] = 21504 /\ Fd[24] = 21516 /\ Fd[25] = 21528 /\ Fd[26] = 21552
        /\ Fd[27] = 21576
    BY SMT DEF Fd
  <2>3. /\ main[23].len = 12 /\ main[24].len = 12 /\ main[25].len = 24 /\ main[26].len = 24
        /\ main[27].len = 952
    <3>1. \A i \in 1..5 : main[22 + i].len = RootLen[i]
      BY RootDirCalls DEF WriteOf
    <3>2. /\ main[22 + 1].len = 12 /\ main[22 + 2].len = 12 /\ main[22 + 3].len = 24
          /\ main[22 + 4].len = 24 /\ main[22 + 5].len = 952
      BY <3>1 DEF RootLen
    <3> QED  BY <3>2
  <2> QED  BY <1>1, <2>1, <2>2, <2>3 DEF Extent
<1>7. Extent(14, 22528, 12) /\ Extent(15, 22540, 12) /\ Extent(16, 22552, 6)
  <2>1. Place[14] = 29 /\ Place[15] = 30 /\ Place[16] = 31
    BY SMT DEF Place
  <2>2. Fd[29] = 22528 /\ Fd[30] = 22540 /\ Fd[31] = 22552
    BY SMT DEF Fd
  <2>3. main[29].len = 12 /\ main[30].len = 12 /\ main[31].len = 6
    <3>1. \A i \in 1..3 : main[28 + i].len = LostBytes[i]
      BY LostDirCalls DEF WriteOf
    <3>2. main[28 + 1].len = 12 /\ main[28 + 2].len = 12 /\ main[28 + 3].len = 6
      BY <3>1 DEF LostBytes
    <3> QED  BY <3>2
  <2> QED  BY <1>1, <2>1, <2>2, <2>3 DEF Extent
<1>8. Extent(17, 23552, 12)
  <2>1. Place[17] = 33 /\ Fd[33] = 23552
    BY SMT DEF Place, Fd
  <2> QED  BY <1>1, <2>1, HelloCalls DEF Extent, WriteOf
<1> QED
  BY <1>2, <1>3, <1>4, <1>5, <1>6, <1>7, <1>8

(* The write touches one of the len bytes at an address. *)
Hit(k, at, len) == Image[k].at < at + len /\ at < Image[k].at + Image[k].len

LEMMA MaxIs ==
  ASSUME NEW S, S \subseteq Int, NEW k \in S, \A x \in S : x <= k
  PROVE  Max(S) = k
<1>1. Max(S) = CHOOSE x \in S : \A y \in S : x >= y
  BY DEF Max
<1>2. \A y \in S : k >= y
  OBVIOUS
<1>3. \A x \in S : (\A y \in S : x >= y) => x = k
  OBVIOUS
<1> QED
  BY <1>1, <1>2, <1>3

(* Bytes are what the last write to them made of them. *)
LEMMA ReadIs ==
  ASSUME Whole, NEW k \in 1..17, NEW at, NEW len \in Nat \ {0},
         Image[k].at = at, len <= Image[k].len,
         \A j \in 1..17 : k < j => ~Hit(j, at, len)
  PROVE  Read(at, len) = Image[k].what
<1> DEFINE hits == {i \in 1..17 : Hit(i, at, len)}
<1>1. hello_img.writes = Image /\ DOMAIN Image = 1..17
  BY DEF Whole, Image
<1>2. at \in Nat /\ Image[k].len \in Nat
  BY ImageTypes DEF InFile, InCall
<1>3. k \in hits
  BY <1>2 DEF Hit
<1>4. \A x \in hits : x <= k
  OBVIOUS
<1>5. Max(hits) = k
  <2>1. hits \subseteq Int
    OBVIOUS
  <2> HIDE DEF hits
  <2> QED  BY <1>3, <1>4, <2>1, MaxIs
<1>6. hits = {i \in DOMAIN Image : Image[i].at < at + len /\ at < Image[i].at + Image[i].len}
  BY <1>1 DEF Hit
<1> HIDE DEF hits
<1> QED
  BY <1>1, <1>3, <1>5, <1>6 DEF Read

(* Bytes that no write touches are zeros. *)
LEMMA ReadZeros ==
  ASSUME Whole, NEW at, NEW len, \A j \in 1..17 : ~Hit(j, at, len)
  PROVE  Read(at, len) = ZEROS
<1>1. hello_img.writes = Image /\ DOMAIN Image = 1..17
  BY DEF Whole, Image
<1> QED
  BY <1>1 DEF Read, Hit

(* Every set of naturals has a least element, and every bounded one a greatest. *)
LEMMA LeastOf ==
  ASSUME NEW T, T \subseteq Nat, T # {}
  PROVE  \E x \in T : \A y \in T : x <= y
<1>1. PICK x \in T : \A y \in T : ~(<<y, x>> \in OpToRel(<, Nat))
  BY NatLessThanWellFounded, WFMin, Zenon
<1>2. \A y \in T : y < x => <<y, x>> \in OpToRel(<, Nat)
  BY DEF OpToRel
<1>3. \A y \in T : ~(y < x)
  BY <1>1, <1>2
<1>4. \A y \in T : x <= y
  BY <1>3
<1> QED
  BY <1>4

LEMMA GreatestOf ==
  ASSUME NEW n \in Nat, NEW S, S \subseteq 1..n, S # {}
  PROVE  \E x \in S : \A y \in S : y <= x
<1> DEFINE T == {n - x : x \in S}
<1>1. T \subseteq Nat /\ T # {}
  OBVIOUS
<1> HIDE DEF T
<1>2. PICK t \in T : \A u \in T : t <= u
  BY <1>1, LeastOf
<1>3. PICK x \in S : t = n - x
  BY DEF T
<1>4. \A y \in S : n - x <= n - y
  BY <1>2, <1>3 DEF T
<1> QED
  BY <1>4

(* What is read as a structure was written there. *)
LEMMA ReadFrom ==
  ASSUME Whole, NEW at, NEW len
  PROVE  \/ Read(at, len) = ZEROS \/ Read(at, len) = MIXED
         \/ \E k \in 1..17 : Image[k].at = at /\ Read(at, len) = Image[k].what
<1> DEFINE hits == {i \in 1..17 : Hit(i, at, len)}
<1>1. hello_img.writes = Image /\ DOMAIN Image = 1..17
  BY DEF Whole, Image
<1>2. hits = {i \in DOMAIN Image : Image[i].at < at + len /\ at < Image[i].at + Image[i].len}
  BY <1>1 DEF Hit
<1>3. CASE hits = {}
  <2> HIDE DEF hits
  <2> QED  BY <1>1, <1>2, <1>3 DEF Read
<1>4. CASE hits # {}
  <2>1. hits \subseteq 1..17
    OBVIOUS
  <2> HIDE DEF hits
  <2>2. PICK m \in hits : \A x \in hits : x <= m
    BY <1>4, <2>1, GreatestOf
  <2>3. Max(hits) = m
    <3>1. hits \subseteq Int
      BY <2>1
    <3> QED  BY <2>2, <3>1, MaxIs
  <2>4. Read(at, len) =
          IF Image[m].at = at /\ Image[m].len >= len THEN Image[m].what ELSE MIXED
    BY <1>1, <1>2, <1>4, <2>3 DEF Read
  <2> QED  BY <2>1, <2>4
<1> QED
  BY <1>3, <1>4
LEMMA Spans ==
  ASSUME NEW k \in 1..17
  PROVE  \/ k = 1 /\ Extent(k, 1024, 1052)
         \/ k = 2 /\ Extent(k, 2048, 32)
         \/ k = 3 /\ Extent(k, 3072, 1024)
         \/ k = 4 /\ Extent(k, 4096, 1024)
         \/ k = 5 /\ Extent(k, 6400, 128)
         \/ k = 6 /\ Extent(k, 5248, 128)
         \/ k = 7 /\ Extent(k, 6528, 128)
         \/ k = 8 /\ Extent(k, 6656, 128)
         \/ k = 9 /\ Extent(k, 21504, 12)
         \/ k = 10 /\ Extent(k, 21516, 12)
         \/ k = 11 /\ Extent(k, 21528, 24)
         \/ k = 12 /\ Extent(k, 21552, 24)
         \/ k = 13 /\ Extent(k, 21576, 952)
         \/ k = 14 /\ Extent(k, 22528, 12)
         \/ k = 15 /\ Extent(k, 22540, 12)
         \/ k = 16 /\ Extent(k, 22552, 6)
         \/ k = 17 /\ Extent(k, 23552, 12)
<1>1. \/ k = 1 \/ k = 2 \/ k = 3 \/ k = 4 \/ k = 5 \/ k = 6 \/ k = 7 \/ k = 8 \/ k = 9
      \/ k = 10 \/ k = 11 \/ k = 12 \/ k = 13 \/ k = 14 \/ k = 15 \/ k = 16 \/ k = 17
  OBVIOUS
<1> QED
  BY <1>1, Extents

(* Nothing that is written later touches a structure, but for the end of the *)
(* superblock, which is behind its block.                                     *)
LEMMA Apart ==
  ASSUME NEW k \in 1..17, NEW j \in 1..17, k < j
  PROVE  \/ Image[j].at + Image[j].len <= Image[k].at
         \/ Image[k].at + Image[k].len <= Image[j].at
         \/ k = 1 /\ Image[k].at + BLOCK_SIZE <= Image[j].at
<1>1. CASE k \in 1..4
  BY <1>1, Spans DEF Extent, BLOCK_SIZE
<1>2. CASE k \in 5..8
  BY <1>2, Spans DEF Extent
<1>3. CASE k \in 9..13
  BY <1>3, Spans DEF Extent
<1>4. CASE k \in 14..17
  BY <1>4, Spans DEF Extent
<1> QED
  BY <1>1, <1>2, <1>3, <1>4

LEMMA ReadStructure ==
  ASSUME Whole, NEW k \in 1..17, NEW a, NEW m, Extent(k, a, m),
         NEW len \in Nat \ {0}, len <= m, k = 1 => len <= BLOCK_SIZE
  PROVE  Read(a, len) = Image[k].what
<1>1. Image[k].at = a /\ Image[k].len = m
  BY DEF Extent
<1>2. a \in Nat /\ m \in Nat
  BY <1>1, ImageTypes DEF InFile, InCall
<1>3. ASSUME NEW j \in 1..17, k < j
      PROVE  ~Hit(j, a, len)
  <2>1. Image[j].at \in Nat /\ Image[j].len \in Nat
    BY ImageTypes DEF InFile, InCall
  <2> QED  BY <1>1, <1>2, <1>3, <2>1, Apart DEF Hit, BLOCK_SIZE
<1> QED
  BY <1>1, <1>3, ReadIs

(* What each structure holds. *)
SuperblockIs(x) ==
  /\ x.is = "superblock" /\ x.s_inodes_count = 128 /\ x.s_blocks_count = 1024
  /\ x.s_free_blocks_count = 1000 /\ x.s_free_inodes_count = 115
  /\ x.s_first_data_block = 1 /\ x.s_blocks_per_group = 8192 /\ x.s_inodes_per_group = 128

DescriptorIs(x) ==
  /\ x.is = "descriptor"
  /\ x.bg_block_bitmap = 3 /\ x.bg_inode_bitmap = 4 /\ x.bg_inode_table = 5
  /\ x.bg_free_blocks_count = 1000 /\ x.bg_free_inodes_count = 115
  /\ x.bg_used_dirs_count = 2

LEMMA Contents ==
  /\ SuperblockIs(Image[1].what) /\ DescriptorIs(Image[2].what)
  /\ Image[3].what = Bitmap(23, 1023) /\ Image[4].what = Bitmap(13, 128)
  /\ Image[5].what = LostAndFoundInode /\ Image[6].what = root_inode
  /\ Image[7].what = HelloWorldInode /\ Image[8].what = HelloInode
  /\ \A i \in 1..5 : Image[8 + i].what = Entry(RootIno[i], RootLen[i], RootName[i])
  /\ \A i \in 1..3 : Image[13 + i].what = LostEntry[i]
  /\ Image[17].what = HelloText
<1>1. \A k \in 1..17 : Image[k].what = main[Place[k]].what
  BY ImageTypes
<1>2. SuperblockIs(Image[1].what)
  <2>1. Place[1] = 6
    BY SMT DEF Place
  <2>2. main[6] = write_superblock[3]
    BY MainParts
  <2>3. SuperblockIs(write_superblock[3].what)
    BY DEF SuperblockIs, write_superblock, Write, NUM_INODES, NUM_BLOCKS, NUM_FREE_BLOCKS,
       NUM_FREE_INODES, LAST_BLOCK, HELLO_WORLD_FILE_BLOCKNO, LAST_INO, HELLO_INO,
       SUPERBLOCK_BLOCKNO, BLOCK_SIZE
  <2> QED  BY <1>1, <2>1, <2>2, <2>3
<1>3. DescriptorIs(Image[2].what)
  <2>1. Place[2] = 8
    BY SMT DEF Place
  <2>2. main[8] = write_block_group_descriptor_table[2]
    BY MainParts
  <2>3. DescriptorIs(write_block_group_descriptor_table[2].what)
    BY DEF DescriptorIs, write_block_group_descriptor_table, Write, NUM_INODES, NUM_BLOCKS,
       NUM_FREE_BLOCKS, NUM_FREE_INODES, LAST_BLOCK, HELLO_WORLD_FILE_BLOCKNO, LAST_INO,
       HELLO_INO, BLOCK_BITMAP_BLOCKNO, INODE_BITMAP_BLOCKNO, INODE_TABLE_BLOCKNO
  <2> QED  BY <1>1, <2>1, <2>2, <2>3
<1>4. Image[3].what = Bitmap(23, 1023) /\ Image[4].what = Bitmap(13, 128)
  <2>1. Place[3] = 10 /\ Place[4] = 12
    BY SMT DEF Place
  <2>2. main[10] = write_block_bitmap[2] /\ main[12] = write_inode_bitmap[2]
    BY MainParts
  <2>3. write_block_bitmap[2].what = Bitmap(23, 1023)
        /\ write_inode_bitmap[2].what = Bitmap(13, 128)
    BY DEF write_block_bitmap, write_inode_bitmap, Write, LAST_BLOCK,
       HELLO_WORLD_FILE_BLOCKNO, LAST_INO, HELLO_INO
  <2> QED  BY <1>1, <2>1, <2>2, <2>3
<1>5. /\ Image[5].what = LostAndFoundInode /\ Image[6].what = root_inode
      /\ Image[7].what = HelloWorldInode /\ Image[8].what = HelloInode
  <2>1. Place[5] = 15 /\ Place[6] = 17 /\ Place[7] = 19 /\ Place[8] = 21
    BY SMT DEF Place
  <2> QED  BY <1>1, <2>1, InodeTableCalls
<1>6. \A i \in 1..5 : Image[8 + i].what = Entry(RootIno[i], RootLen[i], RootName[i])
  <2>1. \A i \in 1..5 : Place[8 + i] = 22 + i
    BY SMT DEF Place
  <2>2. \A i \in 1..5 : Image[8 + i].what = main[22 + i].what
    BY <1>1, <2>1
  <2> QED  BY <2>2, RootDirCalls
<1>7. \A i \in 1..3 : Image[13 + i].what = LostEntry[i]
  <2>1. \A i \in 1..3 : Place[13 + i] = 28 + i
    BY SMT DEF Place
  <2>2. \A i \in 1..3 : Image[13 + i].what = main[28 + i].what
    BY <1>1, <2>1
  <2> QED  BY <2>2, LostDirCalls
<1>8. Image[17].what = HelloText
  <2>1. Place[17] = 33
    BY SMT DEF Place
  <2> QED  BY <1>1, <2>1, HelloCalls
<1> QED
  BY <1>2, <1>3, <1>4, <1>5, <1>6, <1>7, <1>8
-----------------------------------------------------------------------------
(* The structures of a completed file *)

LEMMA MapsRead ==
  ASSUME Whole
  PROVE  /\ SuperblockIs(Superblock) /\ DescriptorIs(Descriptor)
         /\ BlockBitmap = Bitmap(23, 1023) /\ InodeBitmap = Bitmap(13, 128)
<1>1. SuperblockIs(Superblock)
  <2>1. Read(1024, 1024) = Image[1].what
    BY Extents, ReadStructure, SMT DEF BLOCK_SIZE
  <2> QED  BY <2>1, Contents DEF Superblock, BLOCK_OFFSET, BLOCK_SIZE
<1>2. DescriptorIs(Descriptor)
  <2>1. Read(2048, 32) = Image[2].what
    BY Extents, ReadStructure, SMT
  <2> QED
    BY <2>1, Contents DEF Descriptor, BLOCK_OFFSET, BLOCK_SIZE, sizeof_block_group_descriptor
<1>3. Descriptor.bg_block_bitmap = 3 /\ Descriptor.bg_inode_bitmap = 4
  BY <1>2 DEF DescriptorIs
<1>4. BlockBitmap = Bitmap(23, 1023)
  <2>1. Read(3072, 1024) = Image[3].what
    BY Extents, ReadStructure, SMT
  <2> QED  BY <1>3, <2>1, Contents DEF BlockBitmap, BLOCK_OFFSET, BLOCK_SIZE
<1>5. InodeBitmap = Bitmap(13, 128)
  <2>1. Read(4096, 1024) = Image[4].what
    BY Extents, ReadStructure, SMT
  <2> QED  BY <1>3, <2>1, Contents DEF InodeBitmap, BLOCK_OFFSET, BLOCK_SIZE
<1> QED
  BY <1>1, <1>2, <1>4, <1>5

(* The four inodes are where the descriptor leads; the rest of the table is zero. *)
LEMMA InodesRead ==
  ASSUME Whole
  PROVE  /\ InodeAt(2) = root_inode /\ InodeAt(11) = LostAndFoundInode
         /\ InodeAt(12) = HelloWorldInode /\ InodeAt(13) = HelloInode
         /\ \A i \in 1..128 : i \notin {2, 11, 12, 13} => InodeAt(i) = ZEROS
<1>1. \A i : InodeAt(i) = Read(5120 + (i - 1) * 128, 128)
  <2>1. Descriptor.bg_inode_table = 5
    BY MapsRead DEF DescriptorIs
  <2> QED  BY <2>1 DEF InodeAt, BLOCK_OFFSET, BLOCK_SIZE, sizeof_inode
<1>2. InodeAt(2) = Image[6].what /\ InodeAt(11) = Image[5].what
  <2>1. InodeAt(2) = Read(5248, 128) /\ InodeAt(11) = Read(6400, 128)
    BY <1>1
  <2>2. Read(5248, 128) = Image[6].what
    BY Extents, ReadStructure, SMT
  <2>3. Read(6400, 128) = Image[5].what
    BY Extents, ReadStructure, SMT
  <2> QED  BY <2>1, <2>2, <2>3
<1>3. InodeAt(12) = Image[7].what /\ InodeAt(13) = Image[8].what
  <2>1. InodeAt(12) = Read(6528, 128) /\ InodeAt(13) = Read(6656, 128)
    BY <1>1
  <2>2. Read(6528, 128) = Image[7].what
    BY Extents, ReadStructure, SMT
  <2>3. Read(6656, 128) = Image[8].what
    BY Extents, ReadStructure, SMT
  <2> QED  BY <2>1, <2>2, <2>3
<1>4. ASSUME NEW i \in 1..128, i \notin {2, 11, 12, 13}
      PROVE  InodeAt(i) = ZEROS
  <2> DEFINE a == 5120 + (i - 1) * 128
  <2>1. ASSUME NEW j \in 1..17
        PROVE  ~Hit(j, a, 128)
    <3>1. 5120 <= a /\ a + 128 <= 21504
      OBVIOUS
    <3>2. CASE j \in 1..4
      <4>1. Image[j].at \in Nat /\ Image[j].at + Image[j].len <= 5120
        BY <3>2, Spans DEF Extent
      <4> QED  BY <3>1, <4>1, ImageTypes DEF Hit, InCall
    <3>3. CASE j \in 5..8
      <4>1. /\ Image[j].len = 128
            /\ \/ Image[j].at = 6400 \/ Image[j].at = 5248
               \/ Image[j].at = 6528 \/ Image[j].at = 6656
        BY <3>3, Spans DEF Extent
      <4> QED  BY <1>4, <4>1 DEF Hit
    <3>4. CASE j \in 9..17
      <4>1. Image[j].at \in Nat /\ 21504 <= Image[j].at
        BY <3>4, Spans DEF Extent
      <4> QED  BY <3>1, <4>1 DEF Hit
    <3> QED  BY <3>2, <3>3, <3>4
  <2> QED  BY <1>1, <2>1, ReadZeros
<1> QED
  BY <1>2, <1>3, <1>4, Contents

(* The fields that the properties read. *)
InodeIs(x, mode, size, links, blocks, block) ==
  /\ x.is = "inode" /\ x.i_mode = mode /\ x.i_size = size /\ x.i_links_count = links
  /\ x.i_blocks = blocks /\ x.i_block = block

LEMMA InodesAre ==
  ASSUME Whole
  PROVE  /\ InodeIs(InodeAt(2), "IFDIR", 1024, 3, 2, {21})
         /\ InodeIs(InodeAt(11), "IFDIR", 1024, 2, 2, {22})
         /\ InodeIs(InodeAt(12), "IFREG", 12, 1, 2, {23})
         /\ InodeIs(InodeAt(13), "IFLNK", 11, 1, 0, {})
         /\ InodeAt(13).target = "hello-world"
<1>1. InodeIs(root_inode, "IFDIR", 1024, 3, 2, {21})
  BY SMT DEF root_inode, Inode, InodeIs, ROOT_DIR_BLOCKNO
<1>2. InodeIs(LostAndFoundInode, "IFDIR", 1024, 2, 2, {22})
  BY SMT DEF LostAndFoundInode, Inode, InodeIs, LOST_AND_FOUND_DIR_BLOCKNO
<1>3. InodeIs(HelloWorldInode, "IFREG", 12, 1, 2, {23})
  BY SMT DEF HelloWorldInode, Inode, InodeIs, HELLO_WORLD_FILE_BLOCKNO
<1>4. InodeIs(HelloInode, "IFLNK", 11, 1, 0, {}) /\ HelloInode.target = "hello-world"
  <2>1. strlen["hello-world"] = 11
    BY DEF strlen
  <2>2. HelloInode = Inode("IFLNK", 11, 1, 0, {}, "hello-world")
    BY <2>1, Zenon DEF HelloInode
  <2> QED  BY <2>2 DEF Inode, InodeIs
<1> QED
  BY <1>1, <1>2, <1>3, <1>4, InodesRead

LEMMA InodeSets ==
  ASSUME Whole
  PROVE  Inodes = {2, 11, 12, 13} /\ Directories = {2, 11}
<1>1. /\ InodeAt(2).is = "inode" /\ InodeAt(11).is = "inode"
      /\ InodeAt(12).is = "inode" /\ InodeAt(13).is = "inode"
      /\ InodeAt(2).i_mode = "IFDIR" /\ InodeAt(11).i_mode = "IFDIR"
      /\ InodeAt(12).i_mode = "IFREG" /\ InodeAt(13).i_mode = "IFLNK"
  BY InodesAre DEF InodeIs
<1>2. \A i \in 1..128 : i \notin {2, 11, 12, 13} => InodeAt(i).is # "inode"
  <2>1. ZEROS.is # "inode"
    BY DEF ZEROS
  <2> QED  BY <2>1, InodesRead
<1>3. Inodes = {2, 11, 12, 13}
  BY <1>1, <1>2 DEF Inodes, NUM_INODES
<1>4. Directories = {2, 11}
  BY <1>1, <1>3 DEF Directories
<1> QED
  BY <1>3, <1>4

LEMMA DirBlocks ==
  ASSUME Whole
  PROVE  DirBlock(2) = 21 /\ DirBlock(11) = 22
<1>1. InodeAt(2).i_block = {21} /\ InodeAt(11).i_block = {22}
  BY InodesAre DEF InodeIs
<1> QED
  BY <1>1 DEF DirBlock

(* Where the entries of the two directories begin, and where the last one ends. *)
RootAt == <<0, 12, 24, 48, 72, 1024>>
LostAt == <<0, 12, 24, 1024>>

LEMMA EntriesRead ==
  ASSUME Whole
  PROVE  /\ \A i \in 1..5 : EntryAt(21, RootAt[i]) = Entry(RootIno[i], RootLen[i], RootName[i])
         /\ \A i \in 1..3 : EntryAt(22, LostAt[i]) = LostEntry[i]
<1>1. \A o \in Nat : EntryAt(21, o) = Read(21504 + o, 6) /\ EntryAt(22, o) = Read(22528 + o, 6)
  BY DEF EntryAt, BLOCK_OFFSET, BLOCK_SIZE
<1>2. ASSUME NEW i \in 1..5
      PROVE  EntryAt(21, RootAt[i]) = Entry(RootIno[i], RootLen[i], RootName[i])
  <2>1. RootAt[i] \in Nat /\ \E m \in Nat : 6 <= m /\ Extent(8 + i, 21504 + RootAt[i], m)
    <3>1. /\ RootAt[1] = 0 /\ RootAt[2] = 12 /\ RootAt[3] = 24 /\ RootAt[4] = 48
          /\ RootAt[5] = 72
      BY DEF RootAt
    <3> QED  BY <3>1, Extents
  <2>2. Read(21504 + RootAt[i], 6) = Image[8 + i].what
    BY <2>1, ReadStructure
  <2> QED  BY <1>1, <2>1, <2>2, Contents
<1>3. ASSUME NEW i \in 1..3
      PROVE  EntryAt(22, LostAt[i]) = LostEntry[i]
  <2>1. LostAt[i] \in Nat /\ \E m \in Nat : 6 <= m /\ Extent(13 + i, 22528 + LostAt[i], m)
    <3>1. LostAt[1] = 0 /\ LostAt[2] = 12 /\ LostAt[3] = 24
      BY DEF LostAt
    <3> QED  BY <3>1, Extents
  <2>2. Read(22528 + LostAt[i], 6) = Image[13 + i].what
    BY <2>1, ReadStructure
  <2> QED  BY <1>1, <2>1, <2>2, Contents
<1> QED
  BY <1>2, <1>3

(* Nothing else in these blocks reads as an entry. *)
LEMMA NoOtherEntries ==
  ASSUME Whole, NEW o \in Nat, o < 1024
  PROVE  /\ EntryAt(21, o).is = "entry" => \E i \in 1..5 : o = RootAt[i]
         /\ EntryAt(22, o).is = "entry" => \E i \in 1..3 : o = LostAt[i]
<1>1. EntryAt(21, o) = Read(21504 + o, 6) /\ EntryAt(22, o) = Read(22528 + o, 6)
  BY DEF EntryAt, BLOCK_OFFSET, BLOCK_SIZE
<1>2. ZEROS.is # "entry" /\ MIXED.is # "entry"
  BY DEF ZEROS, MIXED
<1>3. ASSUME EntryAt(21, o).is = "entry"
      PROVE  \E i \in 1..5 : o = RootAt[i]
  <2>1. PICK k \in 1..17 : Image[k].at = 21504 + o
    BY <1>1, <1>2, <1>3, ReadFrom
  <2>2. o = 0 \/ o = 12 \/ o = 24 \/ o = 48 \/ o = 72
    BY <2>1, Spans DEF Extent
  <2> QED  BY <2>2 DEF RootAt
<1>4. ASSUME EntryAt(22, o).is = "entry"
      PROVE  \E i \in 1..3 : o = LostAt[i]
  <2>1. PICK k \in 1..17 : Image[k].at = 22528 + o
    BY <1>1, <1>2, <1>4, ReadFrom
  <2>2. o = 0 \/ o = 12 \/ o = 24
    BY <2>1, Spans DEF Extent
  <2> QED  BY <2>2 DEF LostAt
<1> QED
  BY <1>3, <1>4

LEMMA TextRead ==
  ASSUME Whole
  PROVE  Read(BLOCK_OFFSET(23), 12) = HelloText
<1>1. Read(23552, 12) = Image[17].what
  BY Extents, ReadStructure, SMT
<1> QED
  BY <1>1, Contents DEF BLOCK_OFFSET, BLOCK_SIZE
-----------------------------------------------------------------------------
(* The properties of a completed file *)

LEMMA EntriesAre ==
  ASSUME NEW inode, NEW rec_len, NEW name, NEW e, e = Entry(inode, rec_len, name)
  PROVE  e.is = "entry" /\ e.inode = inode /\ e.rec_len = rec_len /\ e.name = name
BY DEF Entry

LEMMA WholeStructures == Whole => StructuresWhole
<1> SUFFICES ASSUME Whole PROVE StructuresWhole
  OBVIOUS
<1>1. hello_img.size = NUM_BLOCKS * BLOCK_SIZE
  BY Zenon DEF Whole, FileSize
<1>2. Superblock.is = "superblock" /\ Descriptor.is = "descriptor"
  BY MapsRead DEF SuperblockIs, DescriptorIs
<1>3. BlockBitmap.is = "bitmap" /\ InodeBitmap.is = "bitmap"
  BY MapsRead DEF Bitmap
<1>4. EXT2_ROOT_INO \in Directories
  BY InodeSets DEF EXT2_ROOT_INO
<1>5. EntryAt(21, 0).is = "entry" /\ EntryAt(22, 0).is = "entry"
  <2>1. RootAt[1] = 0 /\ LostAt[1] = 0 /\ LostEntry[1] = Entry(11, 12, ".")
    BY DEF RootAt, LostAt, LostEntry
  <2>2. EntryAt(21, 0) = Entry(RootIno[1], RootLen[1], RootName[1])
    BY <2>1, EntriesRead
  <2>3. EntryAt(22, 0) = Entry(11, 12, ".")
    BY <2>1, EntriesRead
  <2> QED  BY <2>2, <2>3 DEF Entry
<1>6. /\ Read(BLOCK_OFFSET(23), 12).is = "text"
      /\ strlen[Read(BLOCK_OFFSET(23), 12).text] = 12
  <2>1. HelloText.is = "text" /\ strlen[HelloText.text] = 12
    BY DEF HelloText, strlen
  <2> QED  BY <2>1, TextRead
<1>7. ASSUME NEW i \in Inodes, NEW b \in InodeAt(i).i_block
      PROVE  \/ /\ InodeAt(i).i_mode = "IFDIR" /\ InodeAt(i).i_size = BLOCK_SIZE
                /\ EntryAt(b, 0).is = "entry"
             \/ /\ InodeAt(i).i_mode = "IFREG"
                /\ Read(BLOCK_OFFSET(b), InodeAt(i).i_size).is = "text"
                /\ strlen[Read(BLOCK_OFFSET(b), InodeAt(i).i_size).text] = InodeAt(i).i_size
  <2>1. i = 2 \/ i = 11 \/ i = 12 \/ i = 13
    BY InodeSets
  <2>2. CASE i = 2
    BY <1>5, <2>2, InodesAre DEF InodeIs, BLOCK_SIZE
  <2>3. CASE i = 11
    BY <1>5, <2>3, InodesAre DEF InodeIs, BLOCK_SIZE
  <2>4. CASE i = 12
    <3>1. b = 23 /\ InodeAt(i).i_mode = "IFREG" /\ InodeAt(i).i_size = 12
      BY <2>4, InodesAre DEF InodeIs
    <3> QED  BY <1>6, <3>1
  <2>5. CASE i = 13
    BY <2>5, InodesAre DEF InodeIs
  <2> QED  BY <2>1, <2>2, <2>3, <2>4, <2>5
<1> QED
  BY <1>1, <1>2, <1>3, <1>4, <1>7, Zenon DEF StructuresWhole

(* Whatever the file was, a completed run leaves every structure whole where the   *)
(* one that leads to it says, and a file of the size of the file system.            *)
THEOREM StructuresAreWhole == Spec => []StructuresWhole
<1>1. IInv => StructuresWhole
  <2>1. CASE Completed
    BY <2>1, CompletedWhole, WholeStructures
  <2>2. CASE ~Completed
    BY <2>2 DEF StructuresWhole
  <2> QED  BY <2>1, <2>2
<1> QED
  BY <1>1, SpecInv, PTL

(* The numbers from one to another, counted. *)
LEMMA IntervalSize ==
  ASSUME NEW a \in Nat, NEW b \in Nat, a <= b, NEW S,
         \A i : i \in S <=> i \in Nat /\ a <= i /\ i < b
  PROVE  Cardinality(S) = b - a
<1>1. S = a..(b - 1)
  <2>1. \A i : i \in S <=> i \in a..(b - 1)
    OBVIOUS
  <2> QED  BY <2>1, Zenon
<1>2. Cardinality(a..(b - 1)) = b - a
  <2> DEFINE e == b - 1
  <2>1. e \in Int /\ (a > e => b - a = 0) /\ e - a + 1 = b - a
    OBVIOUS
  <2> HIDE DEF e
  <2>2. Cardinality(a..e) = IF a > e THEN 0 ELSE e - a + 1
    BY <2>1, FS_Interval
  <2> QED  BY <2>1, <2>2 DEF e
<1> QED
  BY <1>1, <1>2

LEMMA ClearBits ==
  ASSUME NEW a \in Nat, NEW b \in Nat, NEW n \in Nat, b <= n,
         NEW bitmap, bitmap = Bitmap(a, b),
         NEW S, \A i : i \in S <=> i \in 0..(n - 1) /\ ~Marked(bitmap, i)
  PROVE  \A i : i \in S <=> i \in Nat /\ a <= i /\ i < b
<1>1. bitmap.below = a /\ bitmap.from = b
  BY DEF Bitmap
<1>2. \A i : Marked(bitmap, i) <=> (i < a \/ i >= b)
  BY <1>1, Zenon DEF Marked
<1>3. \A i : i \in S <=> i \in 0..(n - 1) /\ ~(i < a \/ i >= b)
  BY <1>2, Zenon
<1> QED
  BY <1>3

LEMMA WholeInodes == Whole => InodesAccounted
<1> SUFFICES ASSUME Whole PROVE InodesAccounted
  OBVIOUS
<1> DEFINE clear == {i \in 0..(BLOCK_SIZE * 8 - 1) : ~Marked(InodeBitmap, i)}
<1>1. \A i : i \in clear <=> i \in Nat /\ 13 <= i /\ i < 128
  <2>1. InodeBitmap = Bitmap(13, 128)
    BY MapsRead
  <2> DEFINE n == BLOCK_SIZE * 8
  <2>2. n \in Nat /\ 128 <= n
    BY DEF BLOCK_SIZE
  <2>3. \A i : i \in clear <=> i \in 0..(n - 1) /\ ~Marked(InodeBitmap, i)
    BY Zenon
  <2> HIDE DEF clear, n
  <2> QED  BY <2>1, <2>2, <2>3, ClearBits
<1>2. Cardinality(clear) = 115
  <2> HIDE DEF clear
  <2>1. Cardinality(clear) = 128 - 13
    BY <1>1, IntervalSize
  <2> QED  BY <2>1
<1>3. clear = {i - 1 : i \in (EXT2_GOOD_OLD_FIRST_INO..NUM_INODES) \ Inodes}
  <2> HIDE DEF clear
  <2> DEFINE free == (EXT2_GOOD_OLD_FIRST_INO..NUM_INODES) \ Inodes
  <2>1. \A i : i \in free <=> i \in Nat /\ 14 <= i /\ i <= 128
    BY InodeSets DEF EXT2_GOOD_OLD_FIRST_INO, NUM_INODES
  <2> HIDE DEF free
  <2>2. \A x : x \in clear <=> \E i \in free : x = i - 1
    <3>1. ASSUME NEW x, x \in clear
          PROVE  \E i \in free : x = i - 1
      <4>1. x + 1 \in free /\ x = (x + 1) - 1
        BY <1>1, <2>1, <3>1
      <4> QED  BY <4>1
    <3>2. ASSUME NEW i \in free
          PROVE  i - 1 \in clear
      BY <1>1, <2>1
    <3> QED  BY <3>1, <3>2
  <2> QED  BY <2>2 DEF free
<1>4. \A i \in (1..NUM_INODES) \ Inodes : InodeAt(i) = ZEROS
  BY InodesRead, InodeSets DEF NUM_INODES
<1>5. Cardinality(Directories) = 2
  <2>1. Cardinality({2, 11}) = 2
    <3>1. IsFiniteSet({2}) /\ Cardinality({2}) = 1
      BY FS_Singleton
    <3>2. Cardinality({2} \cup {11}) = 2
      BY <3>1, FS_AddElement
    <3> QED  BY <3>2
  <2> QED  BY <2>1, InodeSets
<1>6. /\ Superblock.s_free_inodes_count = 115
      /\ Descriptor.bg_free_inodes_count = 115
      /\ Descriptor.bg_used_dirs_count = 2
  BY MapsRead DEF SuperblockIs, DescriptorIs
<1> QED
  BY <1>2, <1>3, <1>4, <1>5, <1>6 DEF InodesAccounted

(* Whatever the file was, the inode bitmap, the free counts and the number of       *)
(* directories of a completed image agree with the inode table.                     *)
THEOREM InodesAreAccounted == Spec => []InodesAccounted
<1>1. IInv => InodesAccounted
  <2>1. CASE Completed
    BY <2>1, CompletedWhole, WholeInodes
  <2>2. CASE ~Completed
    BY <2>2 DEF InodesAccounted
  <2> QED  BY <2>1, <2>2
<1> QED
  BY <1>1, SpecInv, PTL

LEMMA WholeBlocks == Whole => BlocksAccounted
<1> SUFFICES ASSUME Whole PROVE BlocksAccounted
  OBVIOUS
<1> DEFINE table == INODE_TABLE_BLOCKNO..
                      (INODE_TABLE_BLOCKNO
                         + (Superblock.s_inodes_per_group * sizeof_inode) \div BLOCK_SIZE - 1)
           fixed == {Superblock.s_first_data_block, BLOCK_GROUP_DESCRIPTOR_BLOCKNO,
                     Descriptor.bg_block_bitmap, Descriptor.bg_inode_bitmap} \cup table
           used == fixed \cup UNION {InodeAt(i).i_block : i \in Inodes}
           bit(b) == b - Superblock.s_first_data_block
           clear == {i \in 0..(Superblock.s_blocks_per_group - 1) : ~Marked(BlockBitmap, i)}
<1>1. /\ Superblock.s_first_data_block = 1 /\ Superblock.s_blocks_per_group = 8192
      /\ Superblock.s_inodes_per_group = 128
      /\ Superblock.s_free_blocks_count = 1000 /\ Descriptor.bg_free_blocks_count = 1000
      /\ Descriptor.bg_block_bitmap = 3 /\ Descriptor.bg_inode_bitmap = 4
  BY MapsRead DEF SuperblockIs, DescriptorIs
<1>2. \A b : b \in fixed <=> b \in 1..20
  <2>1. table = 5..20
    BY <1>1 DEF INODE_TABLE_BLOCKNO, sizeof_inode, BLOCK_SIZE
  <2> HIDE DEF table
  <2> QED  BY <1>1, <2>1 DEF BLOCK_GROUP_DESCRIPTOR_BLOCKNO
<1>3. /\ InodeAt(2).i_block = {21} /\ InodeAt(11).i_block = {22}
      /\ InodeAt(12).i_block = {23} /\ InodeAt(13).i_block = {}
      /\ InodeAt(2).i_blocks = 2 /\ InodeAt(11).i_blocks = 2
      /\ InodeAt(12).i_blocks = 2 /\ InodeAt(13).i_blocks = 0
  BY InodesAre DEF InodeIs
<1>4. \A b : b \in used <=> b \in 1..23
  <2> HIDE DEF fixed
  <2>1. \A b : b \in used <=> b \in fixed \/ \E i \in Inodes : b \in InodeAt(i).i_block
    BY Zenon
  <2>2. \A b : (\E i \in Inodes : b \in InodeAt(i).i_block) <=> b \in {21, 22, 23}
    <3>1. \A b : (\E i \in Inodes : b \in InodeAt(i).i_block)
                   <=> \/ b \in InodeAt(2).i_block \/ b \in InodeAt(11).i_block
                       \/ b \in InodeAt(12).i_block \/ b \in InodeAt(13).i_block
      BY InodeSets
    <3> QED  BY <1>3, <3>1
  <2> HIDE DEF used
  <2>3. \A b : b \in used <=> b \in 1..20 \/ b \in {21, 22, 23}
    BY <1>2, <2>1, <2>2, Zenon
  <2> QED  BY <2>3
<1>5. \A i : i \in clear <=> i \in Nat /\ 23 <= i /\ i < 1023
  <2>1. BlockBitmap = Bitmap(23, 1023)
    BY MapsRead
  <2> DEFINE n == Superblock.s_blocks_per_group
  <2>2. n \in Nat /\ 1023 <= n
    BY <1>1
  <2>3. \A i : i \in clear <=> i \in 0..(n - 1) /\ ~Marked(BlockBitmap, i)
    BY Zenon
  <2> HIDE DEF clear, n
  <2> QED  BY <2>1, <2>2, <2>3, ClearBits
<1>6. Cardinality(clear) = 1000
  <2> HIDE DEF clear
  <2>1. Cardinality(clear) = 1023 - 23
    BY <1>5, IntervalSize
  <2> QED  BY <2>1
<1>7. clear = {bit(b) : b \in (1..(NUM_BLOCKS - 1)) \ used}
  <2> HIDE DEF clear, used
  <2> DEFINE free == (1..(NUM_BLOCKS - 1)) \ used
  <2>1. \A b : b \in free <=> b \in Nat /\ 24 <= b /\ b <= 1023
    BY <1>4 DEF NUM_BLOCKS
  <2> HIDE DEF free
  <2>2. \A b : bit(b) = b - 1
    BY <1>1
  <2> HIDE DEF bit
  <2>3. \A x : x \in clear <=> \E b \in free : x = bit(b)
    <3>1. ASSUME NEW x, x \in clear
          PROVE  \E b \in free : x = bit(b)
      <4>1. x + 1 \in free /\ x = (x + 1) - 1
        BY <1>5, <2>1, <3>1
      <4> QED  BY <2>2, <4>1
    <3>2. ASSUME NEW b \in free
          PROVE  bit(b) \in clear
      BY <1>5, <2>1, <2>2
    <3> QED  BY <3>1, <3>2
  <2> QED  BY <2>3 DEF free
<1>8. ASSUME NEW i \in Inodes
      PROVE  /\ InodeAt(i).i_block \cap fixed = {}
             /\ InodeAt(i).i_blocks * 512 = Cardinality(InodeAt(i).i_block) * BLOCK_SIZE
             /\ \A j \in Inodes \ {i} : InodeAt(i).i_block \cap InodeAt(j).i_block = {}
  <2> HIDE DEF fixed
  <2>1. i = 2 \/ i = 11 \/ i = 12 \/ i = 13
    BY InodeSets
  <2>2. InodeAt(i).i_block \cap fixed = {}
    BY <1>2, <1>3, <2>1
  <2>3. InodeAt(i).i_blocks * 512 = Cardinality(InodeAt(i).i_block) * BLOCK_SIZE
    <3>1. \A x : Cardinality({x}) = 1
      BY FS_Singleton
    <3>2. Cardinality({}) = 0
      BY FS_EmptySet
    <3>3. \/ InodeAt(i).i_blocks = 2 /\ Cardinality(InodeAt(i).i_block) = 1
          \/ InodeAt(i).i_blocks = 0 /\ Cardinality(InodeAt(i).i_block) = 0
      <4>1. CASE i = 13
        BY <1>3, <3>2, <4>1
      <4>2. CASE i # 13
        <5>1. /\ InodeAt(i).i_blocks = 2
              /\ \/ InodeAt(i).i_block = {21} \/ InodeAt(i).i_block = {22}
                 \/ InodeAt(i).i_block = {23}
          BY <1>3, <2>1, <4>2
        <5> QED  BY <3>1, <5>1
      <4> QED  BY <4>1, <4>2
    <3> QED  BY <3>3 DEF BLOCK_SIZE
  <2>4. ASSUME NEW j \in Inodes, j # i
        PROVE  InodeAt(i).i_block \cap InodeAt(j).i_block = {}
    <3>1. j = 2 \/ j = 11 \/ j = 12 \/ j = 13
      BY InodeSets
    <3> QED  BY <1>3, <2>1, <2>4, <3>1
  <2> QED  BY <2>2, <2>3, <2>4
<1> HIDE DEF clear, used, fixed
<1>9. Superblock.s_free_blocks_count = Cardinality(clear)
      /\ Descriptor.bg_free_blocks_count = Cardinality(clear)
  BY <1>1, <1>6
<1> QED
  BY <1>7, <1>8, <1>9, Zenon DEF BlocksAccounted, clear, used, fixed, table, bit

(* Whatever the file was, every block of a completed image has at most one use, and *)
(* the block bitmap and the free counts agree with the uses.                        *)
THEOREM BlocksAreAccounted == Spec => []BlocksAccounted
<1>1. IInv => BlocksAccounted
  <2>1. CASE Completed
    BY <2>1, CompletedWhole, WholeBlocks
  <2>2. CASE ~Completed
    BY <2>2, Zenon DEF BlocksAccounted
  <2> QED  BY <2>1, <2>2
<1> QED
  BY <1>1, SpecInv, PTL
-----------------------------------------------------------------------------
(* The chain of entries in a block *)

(* The function that Offsets chooses. *)
EntryStep(f, b, o) ==
  IF o < BLOCK_SIZE /\ EntryAt(b, o).is = "entry"
  THEN {o} \cup f[o + EntryAt(b, o).rec_len] ELSE {o}
From(b) == CHOOSE f : f = [o \in Nat |-> EntryStep(f, b, o)]

LEMMA OffsetsIs == \A b : Offsets(b) = From(b)[0]
BY Zenon DEF Offsets, From, EntryStep

LEMMA FromIs ==
  ASSUME NEW b, NEW g, g = [o \in Nat |-> EntryStep(g, b, o)], NEW f, f = From(b)
  PROVE  \A o \in Nat : f[o] = EntryStep(f, b, o)
<1>1. f = [o \in Nat |-> EntryStep(f, b, o)]
  BY Zenon DEF From
<1> QED
  BY <1>1, Zenon

(* The n entries of block b begin at at[1], ..., at[n], each where the one before *)
(* it ends, and the last one ends with the block.                                  *)
Tiles(b, at, n) ==
  /\ n \in Nat /\ at[1] = 0 /\ at[n + 1] = BLOCK_SIZE
  /\ \A i \in 1..(n + 1) : at[i] \in Nat
  /\ \A i \in 1..n : /\ at[i] < at[i + 1] /\ at[i] < BLOCK_SIZE
                     /\ EntryAt(b, at[i]).is = "entry"
                     /\ at[i] + EntryAt(b, at[i]).rec_len = at[i + 1]
  /\ \A i, j \in 1..(n + 1) : i < j => at[i] < at[j]
  /\ \A o \in Nat :
       o < BLOCK_SIZE /\ EntryAt(b, o).is = "entry" => \E i \in 1..n : o = at[i]

LEMMA TiledOffsets ==
  ASSUME NEW b, NEW at, NEW n, Tiles(b, at, n)
  PROVE  \A x : x \in Offsets(b) <=> \E i \in 1..(n + 1) : x = at[i]
<1> DEFINE all == {at[i] : i \in 1..(n + 1)}
           rest(o) == {x \in all : x >= o}
           g == [o \in Nat |-> IF o \in all THEN rest(o) ELSE {o}]
           f == From(b)
<1>1. /\ n \in Nat /\ n + 1 \in 1..(n + 1) /\ 1 \in 1..(n + 1)
      /\ all \subseteq Nat /\ BLOCK_SIZE \in all /\ BLOCK_SIZE \in Nat
      /\ 0 \in all
  BY DEF Tiles
<1>2. \A o, x : x \in rest(o) <=> x \in all /\ x >= o
  BY Zenon
<1>3. \A x \in all : x \in Nat
  BY <1>1
<1>4. rest(BLOCK_SIZE) = {BLOCK_SIZE}
  <2>1. \A x \in all : x <= BLOCK_SIZE
    <3>1. ASSUME NEW i \in 1..(n + 1)
          PROVE  at[i] <= BLOCK_SIZE
      <4>1. i = n + 1 \/ i \in 1..n
        BY <1>1
      <4>2. at[i] \in Nat
        BY DEF Tiles
      <4>3. i \in 1..n => at[i] < BLOCK_SIZE
        BY DEF Tiles
      <4>4. i = n + 1 => at[i] = BLOCK_SIZE
        BY DEF Tiles
      <4> QED  BY <1>1, <4>1, <4>2, <4>3, <4>4
    <3> QED  BY <3>1
  <2> HIDE DEF all, rest
  <2>2. ASSUME NEW x, x \in rest(BLOCK_SIZE)
        PROVE  x = BLOCK_SIZE
    <3>1. x \in all /\ x >= BLOCK_SIZE
      BY <1>2, <2>2
    <3> QED  BY <1>1, <1>3, <2>1, <3>1
  <2>3. BLOCK_SIZE \in rest(BLOCK_SIZE)
    <3>1. BLOCK_SIZE >= BLOCK_SIZE
      BY <1>1
    <3> QED  BY <1>1, <1>2, <3>1, Zenon
  <2> QED  BY <2>2, <2>3, Zenon
<1>5. \A i \in 1..n : rest(at[i]) = {at[i]} \cup rest(at[i + 1])
  <2> TAKE i \in 1..n
  <2>1. i \in 1..(n + 1) /\ i + 1 \in 1..(n + 1)
    BY <1>1
  <2>2. at[i] \in all /\ at[i + 1] \in all /\ at[i] < at[i + 1]
    BY <2>1 DEF Tiles
  <2>3. \A x \in all : x >= at[i] => x = at[i] \/ x >= at[i + 1]
    <3> SUFFICES ASSUME NEW j \in 1..(n + 1), at[j] >= at[i]
                 PROVE  at[j] = at[i] \/ at[j] >= at[i + 1]
      OBVIOUS
    <3>1. j < i \/ j = i \/ j = i + 1 \/ i + 1 < j
      BY <1>1
    <3>2. j < i => at[j] < at[i]
      BY <2>1 DEF Tiles
    <3>3. i + 1 < j => at[i + 1] < at[j]
      BY <2>1 DEF Tiles
    <3>4. at[j] \in Nat /\ at[i] \in Nat /\ at[i + 1] \in Nat
      BY <2>1 DEF Tiles
    <3> QED  BY <3>1, <3>2, <3>3, <3>4
  <2> HIDE DEF all, rest
  <2>4. ASSUME NEW x
        PROVE  x \in rest(at[i]) <=> x = at[i] \/ x \in rest(at[i + 1])
    BY <1>2, <1>3, <2>2, <2>3
  <2> QED  BY <2>4
<1>6. rest(0) = all
  <2> HIDE DEF all, rest
  <2>1. \A x : x \in rest(0) <=> x \in all
    BY <1>2, <1>3
  <2> QED  BY <2>1, Zenon
<1>7. \A i \in 1..n : \A h : EntryStep(h, b, at[i]) = {at[i]} \cup h[at[i + 1]]
  BY <1>1 DEF EntryStep, Tiles
<1>8. \A h : EntryStep(h, b, BLOCK_SIZE) = {BLOCK_SIZE}
  BY <1>1 DEF EntryStep
<1>9. g = [o \in Nat |-> EntryStep(g, b, o)]
  <2> SUFFICES ASSUME NEW o \in Nat PROVE g[o] = EntryStep(g, b, o)
    BY Zenon
  <2>1. CASE o = BLOCK_SIZE
    <3> HIDE DEF all, rest
    <3>1. g[o] = rest(o)
      BY <1>1, <2>1
    <3> HIDE DEF g
    <3> QED  BY <1>4, <1>8, <2>1, <3>1
  <2>2. CASE \E i \in 1..n : o = at[i]
    <3>1. PICK i \in 1..n : o = at[i]
      BY <2>2
    <3>2. at[i] \in all /\ at[i + 1] \in all /\ at[i] \in Nat /\ at[i + 1] \in Nat
      <4>1. i \in 1..(n + 1) /\ i + 1 \in 1..(n + 1)
        BY <1>1
      <4> QED  BY <4>1 DEF Tiles
    <3> HIDE DEF all, rest
    <3>3. g[o] = rest(at[i]) /\ g[at[i + 1]] = rest(at[i + 1])
      BY <3>1, <3>2
    <3> HIDE DEF g
    <3> QED  BY <1>5, <1>7, <3>1, <3>3
  <2>3. CASE o # BLOCK_SIZE /\ ~\E i \in 1..n : o = at[i]
    <3>1. o \notin all
      <4> SUFFICES ASSUME NEW i \in 1..(n + 1), o = at[i] PROVE FALSE
        OBVIOUS
      <4>1. i = n + 1 \/ i \in 1..n
        BY <1>1
      <4> QED  BY <2>3, <4>1 DEF Tiles
    <3> HIDE DEF all, rest
    <3>2. g[o] = {o}
      BY <3>1
    <3> HIDE DEF g
    <3>3. ~(o < BLOCK_SIZE /\ EntryAt(b, o).is = "entry")
      BY <2>3 DEF Tiles
    <3> QED  BY <3>2, <3>3, Zenon DEF EntryStep
  <2> QED  BY <2>1, <2>2, <2>3
<1> HIDE DEF g
<1>10. \A o \in Nat : f[o] = EntryStep(f, b, o)
  BY <1>9, FromIs, Zenon
<1> HIDE DEF f, rest
<1> DEFINE S == {k \in Nat : k <= n => f[at[(n + 1) - k]] = rest(at[(n + 1) - k])}
<1>11. 0 \in S
  <2>1. (n + 1) - 0 = n + 1 /\ at[n + 1] = BLOCK_SIZE
    BY <1>1 DEF Tiles
  <2>2. f[BLOCK_SIZE] = rest(BLOCK_SIZE)
    BY <1>1, <1>4, <1>8, <1>10
  <2> QED  BY <2>1, <2>2
<1>12. ASSUME NEW k \in Nat, k \in S
       PROVE  k + 1 \in S
  <2> SUFFICES ASSUME k + 1 <= n
               PROVE  f[at[(n + 1) - (k + 1)]] = rest(at[(n + 1) - (k + 1)])
    OBVIOUS
  <2> DEFINE i == (n + 1) - (k + 1)
  <2>1. i \in 1..n /\ i \in 1..(n + 1) /\ i + 1 = (n + 1) - k /\ k <= n
    BY <1>1
  <2>2. f[at[i + 1]] = rest(at[i + 1])
    BY <1>12, <2>1
  <2>3. at[i] \in Nat
    BY <2>1 DEF Tiles
  <2> HIDE DEF i, S
  <2>4. f[at[i]] = {at[i]} \cup f[at[i + 1]]
    BY <1>7, <1>10, <2>1, <2>3
  <2>5. f[at[i]] = rest(at[i])
    BY <1>5, <2>1, <2>2, <2>4
  <2> QED  BY <2>5 DEF i
<1>13. Nat \subseteq S
  <2> HIDE DEF S
  <2> QED  BY <1>11, <1>12, NatSetInduction
<1>14. f[at[1]] = rest(at[1])
  <2>1. n \in S /\ (n + 1) - n = 1
    BY <1>1, <1>13
  <2> QED  BY <2>1
<1>15. Offsets(b) = all
  BY <1>6, <1>14, OffsetsIs DEF f, Tiles
<1> QED
  BY <1>15, Zenon
-----------------------------------------------------------------------------
(* The directories of a completed file *)

(* The fields of the entries. *)
EntryIs(b, o, inode, rec_len, name) ==
  /\ EntryAt(b, o).is = "entry" /\ EntryAt(b, o).inode = inode
  /\ EntryAt(b, o).rec_len = rec_len /\ EntryAt(b, o).name = name

NoName == FillEntry.name

LEMMA RootEntryFields ==
  ASSUME Whole
  PROVE  /\ EntryIs(21, 0, 2, 12, ".") /\ EntryIs(21, 12, 2, 12, "..")
         /\ EntryIs(21, 24, 11, 24, "lost+found")
         /\ EntryIs(21, 48, 12, 24, "hello-world") /\ EntryIs(21, 72, 13, 952, "hello")
<1>1. \A i \in 1..5 : EntryIs(21, RootAt[i], RootIno[i], RootLen[i], RootName[i])
  BY EntriesRead, EntriesAre DEF EntryIs
<1>2. /\ RootAt[1] = 0 /\ RootIno[1] = 2 /\ RootLen[1] = 12 /\ RootName[1] = "."
      /\ RootAt[2] = 12 /\ RootIno[2] = 2 /\ RootLen[2] = 12 /\ RootName[2] = ".."
      /\ RootAt[3] = 24 /\ RootIno[3] = 11 /\ RootLen[3] = 24 /\ RootName[3] = "lost+found"
      /\ RootAt[4] = 48 /\ RootIno[4] = 12 /\ RootLen[4] = 24 /\ RootName[4] = "hello-world"
      /\ RootAt[5] = 72 /\ RootIno[5] = 13 /\ RootLen[5] = 952 /\ RootName[5] = "hello"
  BY DEF RootAt, RootIno, RootLen, RootName
<1>3. 1 \in 1..5 /\ 2 \in 1..5 /\ 3 \in 1..5 /\ 4 \in 1..5 /\ 5 \in 1..5
  OBVIOUS
<1> QED
  BY <1>1, <1>2, <1>3

LEMMA LostEntryFields ==
  ASSUME Whole
  PROVE  /\ EntryIs(22, 0, 11, 12, ".") /\ EntryIs(22, 12, 2, 12, "..")
         /\ EntryIs(22, 24, 0, 1000, NoName)
<1>1. /\ EntryAt(22, LostAt[1]) = LostEntry[1] /\ EntryAt(22, LostAt[2]) = LostEntry[2]
      /\ EntryAt(22, LostAt[3]) = LostEntry[3]
  BY EntriesRead
<1>2. LostAt[1] = 0 /\ LostAt[2] = 12 /\ LostAt[3] = 24
  BY DEF LostAt
<1>3. /\ LostEntry[1] = Entry(11, 12, ".") /\ LostEntry[2] = Entry(2, 12, "..")
      /\ LostEntry[3] = FillEntry
  BY DEF LostEntry
<1>4. /\ EntryAt(22, 0) = Entry(11, 12, ".") /\ EntryAt(22, 12) = Entry(2, 12, "..")
      /\ EntryAt(22, 24) = FillEntry
  BY <1>1, <1>2, <1>3
<1>5. EntryIs(22, 0, 11, 12, ".") /\ EntryIs(22, 12, 2, 12, "..")
  BY <1>4, EntriesAre DEF EntryIs
<1>6. EntryIs(22, 24, 0, 1000, NoName)
  <2>1. FillEntry.is = "entry" /\ FillEntry.inode = 0 /\ FillEntry.rec_len = 1000
    BY DEF FillEntry, Entry
  <2> QED  BY <1>4, <2>1 DEF EntryIs, NoName
<1> QED
  BY <1>5, <1>6

LEMMA NameLengths ==
  /\ strlen["."] = 1 /\ strlen[".."] = 2 /\ strlen["hello"] = 5
  /\ strlen["lost+found"] = 10 /\ strlen["hello-world"] = 11 /\ strlen[NoName] = 0
<1>1. /\ strlen["."] = 1 /\ strlen[".."] = 2 /\ strlen["hello"] = 5
      /\ strlen["lost+found"] = 10 /\ strlen["hello-world"] = 11
  BY DEF strlen
<1>2. strlen[NoName] = 0
  BY DEF strlen, NoName, FillEntry, Entry
<1> QED
  BY <1>1, <1>2

LEMMA RootOffsets ==
  ASSUME Whole
  PROVE  \A x : x \in Offsets(21) <=> x \in {0, 12, 24, 48, 72, 1024}
<1>1. /\ RootAt[1] = 0 /\ RootAt[2] = 12 /\ RootAt[3] = 24 /\ RootAt[4] = 48
      /\ RootAt[5] = 72 /\ RootAt[6] = 1024
  BY DEF RootAt
<1>2. \A x : (\E i \in 1..6 : x = RootAt[i]) <=> x \in {0, 12, 24, 48, 72, 1024}
  BY <1>1
<1>3. Tiles(21, RootAt, 5)
  <2>1. \A i \in 1..6 : RootAt[i] \in Nat
    BY <1>1
  <2>2. \A i, j \in 1..6 : i < j => RootAt[i] < RootAt[j]
    BY <1>1
  <2>3. \A i \in 1..5 : /\ EntryAt(21, RootAt[i]).is = "entry"
                        /\ RootAt[i] + EntryAt(21, RootAt[i]).rec_len = RootAt[i + 1]
    BY <1>1, RootEntryFields DEF EntryIs
  <2>4. \A i \in 1..5 : RootAt[i] < RootAt[i + 1] /\ RootAt[i] < 1024
    BY <1>1
  <2>5. \A o \in Nat : o < 1024 /\ EntryAt(21, o).is = "entry" => \E i \in 1..5 : o = RootAt[i]
    BY NoOtherEntries
  <2> QED  BY <1>1, <2>1, <2>2, <2>3, <2>4, <2>5 DEF Tiles, BLOCK_SIZE
<1>4. \A x : x \in Offsets(21) <=> \E i \in 1..6 : x = RootAt[i]
  BY <1>3, TiledOffsets
<1> QED
  BY <1>2, <1>4

LEMMA LostOffsets ==
  ASSUME Whole
  PROVE  \A x : x \in Offsets(22) <=> x \in {0, 12, 24, 1024}
<1>1. LostAt[1] = 0 /\ LostAt[2] = 12 /\ LostAt[3] = 24 /\ LostAt[4] = 1024
  BY DEF LostAt
<1>2. \A x : (\E i \in 1..4 : x = LostAt[i]) <=> x \in {0, 12, 24, 1024}
  BY <1>1
<1>3. Tiles(22, LostAt, 3)
  <2>1. \A i \in 1..4 : LostAt[i] \in Nat
    BY <1>1
  <2>2. \A i, j \in 1..4 : i < j => LostAt[i] < LostAt[j]
    BY <1>1
  <2>3. \A i \in 1..3 : /\ EntryAt(22, LostAt[i]).is = "entry"
                        /\ LostAt[i] + EntryAt(22, LostAt[i]).rec_len = LostAt[i + 1]
    BY <1>1, LostEntryFields DEF EntryIs
  <2>4. \A i \in 1..3 : LostAt[i] < LostAt[i + 1] /\ LostAt[i] < 1024
    BY <1>1
  <2>5. \A o \in Nat : o < 1024 /\ EntryAt(22, o).is = "entry" => \E i \in 1..3 : o = LostAt[i]
    BY NoOtherEntries
  <2> QED  BY <1>1, <2>1, <2>2, <2>3, <2>4, <2>5 DEF Tiles, BLOCK_SIZE
<1>4. \A x : x \in Offsets(22) <=> \E i \in 1..4 : x = LostAt[i]
  BY <1>3, TiledOffsets
<1> QED
  BY <1>2, <1>4

(* An entry of block b at o that begins, ends and is named as it must be. *)
EntryFits(b, o, begins) ==
  /\ o % 4 = 0
  /\ EntryAt(b, o).is = "entry"
  /\ EntryAt(b, o).rec_len >= 8 + strlen[EntryAt(b, o).name]
  /\ \A p \in begins \ {o} : EntryAt(b, p).name # EntryAt(b, o).name

LEMMA EntriesFit ==
  ASSUME Whole
  PROVE  /\ \A o \in {0, 12, 24, 48, 72} : EntryFits(21, o, {0, 12, 24, 48, 72})
         /\ \A o \in {0, 12, 24} : EntryFits(22, o, {0, 12, 24})
<1>1. /\ NoName # "." /\ NoName # ".."
  BY NameLengths
<1>2. /\ 0 % 4 = 0 /\ 12 % 4 = 0 /\ 24 % 4 = 0 /\ 48 % 4 = 0 /\ 72 % 4 = 0
  OBVIOUS
<1>3. ASSUME NEW o \in {0, 12, 24, 48, 72}
      PROVE  EntryFits(21, o, {0, 12, 24, 48, 72})
  <2>1. o % 4 = 0
    BY <1>2
  <2>2. EntryAt(21, o).is = "entry" /\ EntryAt(21, o).rec_len >= 8 + strlen[EntryAt(21, o).name]
    BY NameLengths, RootEntryFields DEF EntryIs
  <2>3. \A p \in {0, 12, 24, 48, 72} \ {o} : EntryAt(21, p).name # EntryAt(21, o).name
    BY RootEntryFields DEF EntryIs
  <2> QED  BY <2>1, <2>2, <2>3 DEF EntryFits
<1>4. ASSUME NEW o \in {0, 12, 24}
      PROVE  EntryFits(22, o, {0, 12, 24})
  <2>1. o % 4 = 0
    BY <1>2
  <2>2. EntryAt(22, o).is = "entry" /\ EntryAt(22, o).rec_len >= 8 + strlen[EntryAt(22, o).name]
    BY NameLengths, LostEntryFields DEF EntryIs
  <2>3. \A p \in {0, 12, 24} \ {o} : EntryAt(22, p).name # EntryAt(22, o).name
    BY <1>1, LostEntryFields DEF EntryIs
  <2> QED  BY <2>1, <2>2, <2>3 DEF EntryFits
<1> QED
  BY <1>3, <1>4

LEMMA WholeDirectories == Whole => DirectoriesTile
<1> SUFFICES ASSUME Whole, NEW d \in Directories
             PROVE  /\ BLOCK_SIZE \in Offsets(DirBlock(d))
                    /\ \A o \in Offsets(DirBlock(d)) \ {BLOCK_SIZE} :
                         EntryFits(DirBlock(d), o, Offsets(DirBlock(d)) \ {BLOCK_SIZE})
  BY Zenon DEF DirectoriesTile, EntryFits
<1>1. d = 2 \/ d = 11
  BY InodeSets
<1>2. CASE d = 2
  <2>1. Offsets(21) \ {1024} = {0, 12, 24, 48, 72} /\ 1024 \in Offsets(21)
    BY RootOffsets
  <2> QED  BY <1>2, <2>1, DirBlocks, EntriesFit DEF BLOCK_SIZE
<1>3. CASE d = 11
  <2>1. Offsets(22) \ {1024} = {0, 12, 24} /\ 1024 \in Offsets(22)
    BY LostOffsets
  <2> QED  BY <1>3, <2>1, DirBlocks, EntriesFit DEF BLOCK_SIZE
<1> QED
  BY <1>1, <1>2, <1>3

(* Whatever the file was, the entries of a directory of a completed image tile its *)
(* block, and their names differ.                                                   *)
THEOREM DirectoriesAreTiled == Spec => []DirectoriesTile
<1>1. IInv => DirectoriesTile
  <2>1. CASE Completed
    BY <2>1, CompletedWhole, WholeDirectories
  <2>2. CASE ~Completed
    BY <2>2, Zenon DEF DirectoriesTile
  <2> QED  BY <2>1, <2>2
<1> QED
  BY <1>1, SpecInv, PTL

(* The names of the two directories. *)
In(d, o) == [dir |-> d, at |-> o]

LEMMA InDiffers ==
  \A d, o, e, p : /\ In(d, o).dir = d /\ In(d, o).at = o
                  /\ In(d, o) = In(e, p) <=> d = e /\ o = p
BY DEF In

LEMMA NamesAre ==
  ASSUME Whole
  PROVE  Names = {In(2, 0), In(2, 12), In(2, 24), In(2, 48), In(2, 72), In(11, 0), In(11, 12)}
<1> DEFINE begin(d) == {o \in Offsets(DirBlock(d)) \ {BLOCK_SIZE} :
                          EntryAt(DirBlock(d), o).inode # 0}
<1>1. \A o : o \in begin(2) <=> o \in {0, 12, 24, 48, 72}
  <2>1. \A o : o \in Offsets(DirBlock(2)) \ {BLOCK_SIZE} <=> o \in {0, 12, 24, 48, 72}
    BY RootOffsets, DirBlocks DEF BLOCK_SIZE
  <2>2. \A o \in {0, 12, 24, 48, 72} : EntryAt(DirBlock(2), o).inode # 0
    BY RootEntryFields, DirBlocks DEF EntryIs
  <2> QED  BY <2>1, <2>2, Zenon
<1>2. \A o : o \in begin(11) <=> o \in {0, 12}
  <2>1. \A o : o \in Offsets(DirBlock(11)) \ {BLOCK_SIZE} <=> o \in {0, 12, 24}
    BY LostOffsets, DirBlocks DEF BLOCK_SIZE
  <2>2. \A o \in {0, 12, 24} : EntryAt(DirBlock(11), o).inode # 0 <=> o \in {0, 12}
    BY LostEntryFields, DirBlocks DEF EntryIs
  <2> QED  BY <2>1, <2>2
<1>3. \A n : n \in Names <=> \E d \in Directories : \E o \in begin(d) : n = In(d, o)
  <2> DEFINE named(d) == {In(d, o) : o \in begin(d)}
  <2>1. Names = UNION {named(d) : d \in Directories}
    BY Zenon DEF Names, In
  <2>2. \A d, n : n \in named(d) <=> \E o \in begin(d) : n = In(d, o)
    BY Zenon
  <2> HIDE DEF named, begin
  <2>3. \A n : n \in Names <=> \E d \in Directories : n \in named(d)
    BY <2>1
  <2> QED  BY <2>2, <2>3
<1> HIDE DEF begin
<1>4. \A n : n \in Names <=> (\E o \in begin(2) : n = In(2, o)) \/ (\E o \in begin(11) : n = In(11, o))
  BY <1>3, InodeSets
<1>5. \A n : n \in Names <=>
        \/ n = In(2, 0) \/ n = In(2, 12) \/ n = In(2, 24) \/ n = In(2, 48) \/ n = In(2, 72)
        \/ n = In(11, 0) \/ n = In(11, 12)
  BY <1>1, <1>2, <1>4
<1> QED
  BY <1>5

LEMMA NamedAre ==
  ASSUME Whole
  PROVE  /\ \A n \in {In(2, 0), In(2, 12), In(11, 12)} : Named(n).inode = 2
         /\ \A n \in {In(2, 24), In(11, 0)} : Named(n).inode = 11
         /\ Named(In(2, 48)).inode = 12 /\ Named(In(2, 72)).inode = 13
         /\ Named(In(2, 0)).name = "." /\ Named(In(11, 0)).name = "."
         /\ Named(In(2, 48)).name = "hello-world"
<1>1. \A o : Named(In(2, o)) = EntryAt(21, o) /\ Named(In(11, o)) = EntryAt(22, o)
  BY DirBlocks DEF Named, In
<1> QED
  BY <1>1, RootEntryFields, LostEntryFields DEF EntryIs

(* The names of each inode. *)
NamesOf(i) == {n \in Names : Named(n).inode = i}

LEMMA NamesCounted ==
  ASSUME Whole
  PROVE  /\ Cardinality(NamesOf(2)) = 3 /\ Cardinality(NamesOf(11)) = 2
         /\ Cardinality(NamesOf(12)) = 1 /\ Cardinality(NamesOf(13)) = 1
<1>1. /\ NamesOf(2) = {In(2, 0), In(2, 12), In(11, 12)}
      /\ NamesOf(11) = {In(2, 24), In(11, 0)}
      /\ NamesOf(12) = {In(2, 48)} /\ NamesOf(13) = {In(2, 72)}
  <2>1. \A n \in Names : /\ Named(n).inode = 2 <=> n \in {In(2, 0), In(2, 12), In(11, 12)}
                         /\ Named(n).inode = 11 <=> n \in {In(2, 24), In(11, 0)}
                         /\ Named(n).inode = 12 <=> n = In(2, 48)
                         /\ Named(n).inode = 13 <=> n = In(2, 72)
    <3> TAKE n \in Names
    <3>1. \/ n = In(2, 0) \/ n = In(2, 12) \/ n = In(2, 24) \/ n = In(2, 48)
          \/ n = In(2, 72) \/ n = In(11, 0) \/ n = In(11, 12)
      BY NamesAre
    <3> QED  BY <3>1, NamedAre, InDiffers
  <2>2. {In(2, 0), In(2, 12), In(11, 12), In(2, 24), In(11, 0), In(2, 48), In(2, 72)}
          \subseteq Names
    BY NamesAre
  <2>3. \A i, n : n \in NamesOf(i) <=> n \in Names /\ Named(n).inode = i
    BY Zenon DEF NamesOf
  <2>4. \A n : /\ n \in NamesOf(2) <=> n \in {In(2, 0), In(2, 12), In(11, 12)}
               /\ n \in NamesOf(11) <=> n \in {In(2, 24), In(11, 0)}
               /\ n \in NamesOf(12) <=> n = In(2, 48)
               /\ n \in NamesOf(13) <=> n = In(2, 72)
    BY <2>1, <2>2, <2>3
  <2> QED  BY <2>4
<1>2. \A x, y : x # y => Cardinality({x, y}) = 2 /\ IsFiniteSet({x, y})
  <2> TAKE x, y
  <2>1. IsFiniteSet({x}) /\ Cardinality({x}) = 1
    BY FS_Singleton
  <2>2. x # y => Cardinality({x} \cup {y}) = 2 /\ IsFiniteSet({x} \cup {y})
    BY <2>1, FS_AddElement
  <2>3. {x} \cup {y} = {x, y}
    OBVIOUS
  <2> QED  BY <2>2, <2>3
<1>3. In(2, 0) # In(2, 12) /\ In(2, 24) # In(11, 0) /\ In(11, 12) \notin {In(2, 0), In(2, 12)}
  BY InDiffers
<1>4. Cardinality(NamesOf(2)) = 3
  <2>1. Cardinality({In(2, 0), In(2, 12)}) = 2 /\ IsFiniteSet({In(2, 0), In(2, 12)})
    BY <1>2, <1>3
  <2>2. Cardinality({In(2, 0), In(2, 12)} \cup {In(11, 12)}) = 3
    BY <1>3, <2>1, FS_AddElement
  <2>3. NamesOf(2) = {In(2, 0), In(2, 12)} \cup {In(11, 12)}
    BY <1>1
  <2> QED  BY <2>2, <2>3
<1>5. Cardinality(NamesOf(11)) = 2
  <2>1. Cardinality({In(2, 24), In(11, 0)}) = 2
    BY <1>2, <1>3
  <2>2. NamesOf(11) = {In(2, 24), In(11, 0)}
    BY <1>1
  <2> QED  BY <2>1, <2>2
<1>6. Cardinality(NamesOf(12)) = 1 /\ Cardinality(NamesOf(13)) = 1
  <2>1. \A x : Cardinality({x}) = 1
    BY FS_Singleton
  <2>2. NamesOf(12) = {In(2, 48)} /\ NamesOf(13) = {In(2, 72)}
    BY <1>1
  <2> QED  BY <2>1, <2>2
<1> QED
  BY <1>4, <1>5, <1>6

LEMMA WholeLinks == Whole => LinksCounted
<1> SUFFICES ASSUME Whole PROVE LinksCounted
  OBVIOUS
<1>1. \A n \in Names : Named(n).inode \in Inodes
  <2> TAKE n \in Names
  <2>1. \/ n = In(2, 0) \/ n = In(2, 12) \/ n = In(2, 24) \/ n = In(2, 48)
        \/ n = In(2, 72) \/ n = In(11, 0) \/ n = In(11, 12)
    BY NamesAre
  <2> QED  BY <2>1, NamedAre, InodeSets
<1>2. \A i \in Inodes : /\ InodeAt(i).i_links_count = Cardinality(NamesOf(i))
                        /\ InodeAt(i).i_links_count > 0
  BY InodeSets, InodesAre, NamesCounted DEF InodeIs
<1>3. \A d \in Directories : \E n \in Names :
        n.dir = d /\ Named(n).name = "." /\ Named(n).inode = d
  <2>1. In(2, 0) \in Names /\ In(11, 0) \in Names
    BY NamesAre
  <2>2. In(2, 0).dir = 2 /\ In(11, 0).dir = 11
    BY DEF In
  <2> QED  BY <2>1, <2>2, NamedAre, InodeSets
<1>4. \A i \in Inodes : InodeAt(i).i_mode = "IFLNK" =>
        /\ InodeAt(i).i_size = strlen[InodeAt(i).target]
        /\ \E n \in Names : n.dir = EXT2_ROOT_INO /\ Named(n).name = InodeAt(i).target
  <2> SUFFICES ASSUME NEW i \in Inodes, InodeAt(i).i_mode = "IFLNK"
               PROVE  /\ InodeAt(i).i_size = strlen[InodeAt(i).target]
                      /\ \E n \in Names :
                           n.dir = EXT2_ROOT_INO /\ Named(n).name = InodeAt(i).target
    BY Zenon
  <2>1. i = 13
    BY InodeSets, InodesAre DEF InodeIs
  <2>2. InodeAt(13).i_size = 11 /\ InodeAt(13).target = "hello-world"
    BY InodesAre DEF InodeIs
  <2>3. In(2, 48) \in Names /\ In(2, 48).dir = EXT2_ROOT_INO
    BY NamesAre DEF In, EXT2_ROOT_INO
  <2> QED  BY <2>1, <2>2, <2>3, NamedAre, NameLengths
<1> QED
  BY <1>1, <1>2, <1>3, <1>4, Zenon DEF LinksCounted, NamesOf

(* Whatever the file was, every name in a completed image leads to an inode, every  *)
(* inode has as many names as its count of links says, and the symbolic link leads   *)
(* to a name of the root directory.                                                  *)
THEOREM LinksAreCounted == Spec => []LinksCounted
<1>1. IInv => LinksCounted
  <2>1. CASE Completed
    BY <2>1, CompletedWhole, WholeLinks
  <2>2. CASE ~Completed
    BY <2>2, Zenon DEF LinksCounted
  <2> QED  BY <2>1, <2>2
<1> QED
  BY <1>1, SpecInv, PTL
==============================================================================
