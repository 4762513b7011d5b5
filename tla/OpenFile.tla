------------------------------- MODULE OpenFile -------------------------------
(***************************************************************************)
(* The bytes of one regular file, and the open files that read, write and  *)
(* seek in it: filesystem/file.c over ramfs (one growing buffer on the      *)
(* heap) or over pkfs (a chain of data pages on the disc).                   *)
(***************************************************************************)
EXTENDS Integers, Sequences, SequencesExt

CONSTANTS
  File,         \* open files on this file; also the bytes that each of them writes
  PageSize,     \* FILESYSTEM_FILE_DATA_PAGE_SIZE
  HeapMax,      \* the largest buffer that the heap has room for
  Word,         \* offsets are computed modulo Word
  MaxSize       \* the largest read or write

OpenFileAssumption ==
  /\ {PageSize, HeapMax, MaxSize} \subseteq Nat \ {0}
  /\ Word \in Nat /\ Word > HeapMax + MaxSize

Zero == "zero"  \* the byte that heap_alloc fills a buffer with

VARIABLES
  fs,           \* "ramfs" or "pkfs"
  pages,        \* the bytes, page by page; ramfs has one
  options,      \* O_RD and O_WR of the open files
  offset,       \* their positions
  mode,         \* "running", or why the kernel does not go on
  regular,      \* whether every write so far was at the end, and inside the first page
  wanted,       \* what a file holds after the same writes
  start,        \* in pkfs: where an open file was when it was opened, moved or
                \* written last
  got           \* in pkfs: the bytes that it has read since then

vars == <<fs, pages, options, offset, mode, regular, wanted, start, got>>

Content == FlattenSeq(pages)

Min2(a, b) == IF a < b THEN a ELSE b

\* The bytes of a sequence from an offset on, at most size of them.
Slice(s, from, size) ==
  IF from >= Len(s) THEN <<>> ELSE SubSeq(s, from + 1, Min2(from + size, Len(s)))

Started(f, off) ==
  /\ start' = IF fs = "pkfs" THEN [start EXCEPT ![f] = off] ELSE start
  /\ got' = [got EXCEPT ![f] = <<>>]

Noted(f, bytes) ==
  /\ got' = IF fs = "pkfs" THEN [got EXCEPT ![f] = @ \o bytes] ELSE got
  /\ UNCHANGED start

Bytes(b, size) == [i \in 1 .. size |-> b]

Init ==
  /\ \/ fs = "ramfs" /\ pages = <<<<>>>>
     \/ fs = "pkfs" /\ pages = <<<<>>>>
     \/ fs = "pkfs" /\ pages = <<Bytes(Zero, PageSize), <<Zero>>>>
  /\ options \in [File -> SUBSET {"O_RD", "O_WR"} \ {{}}]
  /\ offset = [f \in File |-> 0]
  /\ mode = "running"
  /\ regular = TRUE
  /\ wanted = Content
  /\ start = [f \in File |-> 0]
  /\ got = [f \in File |-> <<>>]

-----------------------------------------------------------------------------
\* read_file: first to the offset, then byte by byte.

RECURSIVE skip(_, _), take(_, _, _), take_on(_, _, _)

\* The page and the place in it where the offset is, <<0, 0>> behind the end.
skip(page, off) ==
  IF off =< Len(pages[page]) THEN <<page, off>>
  ELSE IF page = Len(pages) THEN <<0, 0>>
  ELSE skip(page + 1, off - Len(pages[page]))

\* Bug: the place in the page is not reset for the next page.
take_on(page, inner, size) ==
  IF size = 0 THEN <<>>
  ELSE IF inner < Len(pages[page])
       THEN <<pages[page][inner + 1]>> \o take_on(page, inner + 1, size - 1)
  ELSE IF page = Len(pages) THEN <<>>
  ELSE take_on(page + 1, inner, size)

take(page, inner, size) ==
  IF size = 0 THEN <<>>
  ELSE IF inner < Len(pages[page])
       THEN <<pages[page][inner + 1]>> \o take(page, inner + 1, size - 1)
  ELSE IF page = Len(pages) THEN <<>>
  ELSE take(page + 1, 0, size)

read_file(size, off) ==
  LET at == skip(1, off)
  IN  IF at[1] = 0 THEN <<>> ELSE take(at[1], at[2], size)

ramfs_read(size, off) ==
  LET data == pages[1]
      limited_size == IF (size + off) % Word > Len(data) THEN Len(data) - off ELSE size
  IN  IF off >= Len(data) THEN <<>> ELSE SubSeq(data, off + 1, off + limited_size)

superblock_read(size, off) ==
  IF fs = "ramfs" THEN ramfs_read(size, off) ELSE read_file(size, off)


file_read(f, size) ==
  /\ mode = "running"
  /\ "O_RD" \in options[f]
  /\ LET bytes == superblock_read(size, offset[f]) IN
       /\ offset' = [offset EXCEPT ![f] = (@ + Len(bytes)) % Word]
       /\ Noted(f, bytes)
  /\ UNCHANGED <<fs, pages, options, mode, regular, wanted>>

-----------------------------------------------------------------------------
\* The bytes of data put at off into a buffer that is long enough.
Copied(buffer, data, off) ==
  [i \in DOMAIN buffer |-> IF i - off \in DOMAIN data THEN data[i - off] ELSE buffer[i]]

Padded(s, len) == s \o Bytes(Zero, len - Len(s))


\* Bug: the data goes to the start of the buffer.
ramfs_write_front(f, size) ==
  LET end == (offset[f] + size) % Word
      data == pages[1]
      grown == IF end > Len(data) THEN Padded(data, end) ELSE data
  IN  IF end > Len(data) /\ end > HeapMax
      THEN mode' = "panic" /\ UNCHANGED <<pages, offset>>
      ELSE IF offset[f] + size > Len(grown) /\ size > 0
      THEN mode' = "undefined" /\ UNCHANGED <<pages, offset>>
      ELSE /\ pages' = <<Copied(grown, Bytes(f, size), 0)>>
           /\ offset' = [offset EXCEPT ![f] = end]
           /\ UNCHANGED mode

\* The buffer grows to the end of the data, computed modulo Word; heap_alloc
\* panics when it has no room, and a copy outside of the buffer is undefined.
ramfs_write(f, size) ==
  LET end == (offset[f] + size) % Word
      data == pages[1]
      grown == IF end > Len(data) THEN Padded(data, end) ELSE data
  IN  IF end > Len(data) /\ end > HeapMax
      THEN mode' = "panic" /\ UNCHANGED <<pages, offset>>
      ELSE IF offset[f] + size > Len(grown) /\ size > 0
      THEN mode' = "undefined" /\ UNCHANGED <<pages, offset>>
      ELSE /\ pages' = <<Copied(grown, Bytes(f, size), offset[f])>>
           /\ offset' = [offset EXCEPT ![f] = end]
           /\ UNCHANGED mode

\* The data goes behind what the first page holds, wherever the offset is in
\* it, and as much as the page has room for; the file moves by the whole size.
\* An offset behind the first page is never reached (Pkfs, write_file_beyond).
write_file(f, size) ==
  LET write_size == Min2(size, PageSize - Len(pages[1]))
  IN  IF offset[f] < PageSize
      THEN /\ pages' = [pages EXCEPT ![1] = @ \o Bytes(f, write_size)]
           /\ offset' = [offset EXCEPT ![f] = (@ + size) % Word]
           /\ UNCHANGED mode
      ELSE mode' = "spinning" /\ UNCHANGED <<pages, offset>>

file_write(f, size) ==
  /\ mode = "running"
  /\ "O_WR" \in options[f]
  /\ IF fs = "ramfs" THEN ramfs_write(f, size) ELSE write_file(f, size)
  /\ regular' = (/\ regular
                 /\ offset[f] = Len(wanted)
                 /\ offset[f] + size =< (IF fs = "ramfs" THEN HeapMax ELSE PageSize))
  /\ wanted' = IF regular' THEN wanted \o Bytes(f, size) ELSE wanted
  /\ Started(f, offset'[f])
  /\ UNCHANGED <<fs, options>>

-----------------------------------------------------------------------------
Moved(f, to) ==
  /\ offset' = [offset EXCEPT ![f] = to]
  /\ Started(f, to)

\* SEEK_SET, SEEK_END and SEEK_CUR; node->size is 0 in both filesystems.
syscall_seek(f, off) ==
  /\ mode = "running"
  /\ \/ Moved(f, off)
     \/ Moved(f, (0 - off) % Word)
     \/ Moved(f, (offset[f] + off) % Word)
  /\ UNCHANGED <<fs, pages, options, mode, regular, wanted>>

\* dup and fork: the copy has a position of its own.
file_clone(dst, src) ==
  /\ mode = "running"
  /\ dst # src
  /\ Moved(dst, offset[src])
  /\ options' = [options EXCEPT ![dst] = options[src]]
  /\ UNCHANGED <<fs, pages, mode, regular, wanted>>

Stopped == mode # "running" /\ UNCHANGED vars

Next ==
  \/ \E f \in File, size \in 0 .. MaxSize: file_read(f, size) \/ file_write(f, size)
  \/ \E f \in File, off \in 0 .. Word - 1: syscall_seek(f, off)
  \/ \E f, g \in File: file_clone(f, g)
  \/ Stopped

Spec == Init /\ [][Next]_vars

-----------------------------------------------------------------------------
\* Positions and pages have their types.
TypeOK ==
  /\ offset \in [File -> 0 .. Word - 1]
  /\ \A i \in DOMAIN pages: pages[i] \in Seq(File \cup {Zero})
  /\ fs = "pkfs" => Len(pages[1]) =< PageSize
  /\ mode \in {"running", "panic", "undefined", "spinning"}



\* ramfs copies outside of its buffer only for an open file that stands behind
\* the end of the file, and panics only when the file would outgrow the heap.
InBounds ==
  /\ mode = "undefined" => \E f \in File: offset[f] > Len(Content)
  /\ mode = "panic" => \E f \in File: offset[f] + MaxSize > HeapMax

\* Someone who only reads has read a part of the file without a gap or a
\* repetition, while others write to it: pkfs only adds bytes at the end.
ReadsInOrder ==
  fs = "pkfs" => \A f \in File:
     start[f] =< Len(Content) =>
        got[f] = Slice(Content, start[f], offset[f] - start[f])
=============================================================================
