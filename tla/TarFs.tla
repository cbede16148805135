------------------------------- MODULE TarFs -------------------------------
(***************************************************************************)
(* The lookup of a file in a tar archive (fs/tarfs.c): tar_lookup walks    *)
(* from header to header, by the sizes the headers give, to the first      *)
(* block that is no header.                                                *)
(*                                                                         *)
(* A block of 512 bytes is what tar_lookup reads of it: the magic number,  *)
(* the name and the octal number in the field size.  A block of data can   *)
(* look like a header, as it does in an archive of archives.               *)
(***************************************************************************)
EXTENDS Integers, Sequences

CONSTANTS
  Names,      (* The names of files.                                       *)
  Data,       (* The blocks that files are made of.                        *)
  Archives,   (* The archives: sequences of files.                         *)
  MaxBlocks   (* Bound: the blocks of an archive.                          *)

Block == [ustar : BOOLEAN, name : Names, size : Seq(0 .. 7)]

(* The number that the digits s stand for, the first of them first. *)
Octal(s) ==
  LET value[n \in 0 .. Len(s)] == IF n = 0 THEN 0 ELSE value[n - 1] * 8 + s[n] IN
  value[Len(s)]

File == [name : Names, size : Seq(0 .. 7)]

TarAssumption ==
  /\ Data \subseteq Block
  /\ Archives \subseteq Seq(File)
  /\ MaxBlocks \in Nat

VARIABLES
  files,      (* The files of the archive.                                 *)
  at,         (* Where their headers are, and where the archive ends.      *)
  archive,    (* The blocks of the archive.                                *)
  filename,   (* The name looked up.                                       *)
  ptr,        (* The block the lookup is at.                               *)
  pc,
  out, size,  (* The results.                                              *)
  rv

vars == <<files, at, archive, filename, ptr, pc, out, size, rv>>

ENOENT == 5

(* Mistake: the last block counts only if it is full. *)
Blocks_full(n) == n \div 512

(* The blocks of a file of n bytes. *)
Blocks(n) == (n + 511) \div 512

Header(file) == [ustar |-> TRUE, name |-> file.name, size |-> file.size]

(* Where the headers are: each behind the data of the file before it, which *)
(* takes as few blocks of 512 bytes as will do.                            *)
Layout(fs) ==
  {a \in [1 .. Len(fs) + 1 -> 0 .. MaxBlocks] :
     /\ a[1] = 0
     /\ \A j, k \in 1 .. Len(fs) + 1 : j < k => a[j] < a[k]
     /\ \A j \in 1 .. Len(fs) :
          LET blocks == a[j + 1] - a[j] - 1 IN
            /\ Octal(fs[j].size) <= 512 * blocks
            /\ 512 * blocks < Octal(fs[j].size) + 512}

(* A tar archive, with a block that is no header behind its last file. *)
Init ==
  /\ files \in Archives
  /\ at \in Layout(files)
  /\ \E data \in [0 .. at[Len(files) + 1] - 1 -> Data], end \in {b \in Data : ~b.ustar} :
       archive = [b \in 0 .. at[Len(files) + 1] |->
         IF b = at[Len(files) + 1] THEN end
         ELSE IF \E j \in 1 .. Len(files) : at[j] = b
           THEN Header(files[CHOOSE j \in 1 .. Len(files) : at[j] = b])
           ELSE data[b]]
  /\ filename \in Names
  /\ ptr = 0
  /\ pc = "loop"
  /\ out = 0
  /\ size = 0
  /\ rv = 0

-----------------------------------------------------------------------------
(* An iteration: the file is found, or the walk goes on behind its data.   *)
Found ==
  /\ pc = "loop"
  /\ archive[ptr].ustar
  /\ archive[ptr].name = filename
  /\ out' = ptr + 1
  /\ size' = Octal(archive[ptr].size)
  /\ rv' = 0
  /\ pc' = "returned"
  /\ UNCHANGED <<files, at, archive, filename, ptr>>


Skip ==
  /\ pc = "loop"
  /\ archive[ptr].ustar
  /\ archive[ptr].name # filename
  /\ ptr' = ptr + (Blocks(Octal(archive[ptr].size)) + 1)
  /\ UNCHANGED <<files, at, archive, filename, pc, out, size, rv>>

NotFound ==
  /\ pc = "loop"
  /\ ~archive[ptr].ustar
  /\ rv' = -ENOENT
  /\ pc' = "returned"
  /\ UNCHANGED <<files, at, archive, filename, ptr, out, size>>

Next == Found \/ Skip \/ NotFound

Spec == Init /\ [][Next]_vars

-----------------------------------------------------------------------------
(* Is file j the first with the name looked up? *)
First(j) ==
  /\ files[j].name = filename
  /\ \A k \in 1 .. j - 1 : files[k].name # filename

(* The lookup finds the data of the first file of that name, whatever the  *)
(* sizes of the files before it and even if their data looks like headers; *)
(* it fails exactly when there is no such file.                            *)
LookupRight ==
  pc = "returned" =>
    /\ rv \in {0, -ENOENT}
    /\ rv = 0 => \E j \in 1 .. Len(files) :
         First(j) /\ out = at[j] + 1 /\ size = Octal(files[j].size)
    /\ rv = -ENOENT => \A j \in 1 .. Len(files) : files[j].name # filename
=============================================================================
