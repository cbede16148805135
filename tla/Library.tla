------------------------------ MODULE Library ------------------------------
(***************************************************************************)
(* The libraries side by side: a behaviour is a call of a function of      *)
(* lib/string.c, of tar_lookup or of snprintf, while the others idle.      *)
(***************************************************************************)
EXTENDS StringLib, Sequences

CONSTANTS
  Names, Data, Archives, MaxBlocks,      (* Those of TarFs.                *)
  PRINTF_NTOA_BUFFER_SIZE,               (* Those of Snprintf, whose Calls *)
  CharValues, ShortValues, IntValues,    (* are PrintCalls.                *)
  PointerSize, PrintCalls

VARIABLES library,                                          \* The one called.
          files, at, archive, filename, ptr, out, size,     \* fs/tarfs.c
          request, format, va, buffer, idx,                 \* lib/snprintf.c
          place, result                                     \* Of these two.

tarVars == <<files, at, archive, filename, ptr, out, size>>
printVars == <<request, format, va, buffer, idx>>
libraryVars == <<library, vars, tarVars, printVars, place, result>>

Tar == INSTANCE TarFs WITH pc <- place, rv <- result

Printf == INSTANCE Snprintf WITH
  Calls <- PrintCalls, call <- request, pc <- place, rv <- result

-----------------------------------------------------------------------------
NoString == call = 0 /\ mem = 0 /\ pc = "idle" /\ d = 0 /\ s = 0 /\ i = 0 /\ ch = 0 /\ ret = 0
NoTar == files = 0 /\ at = 0 /\ archive = 0 /\ filename = 0 /\ ptr = 0 /\ out = 0 /\ size = 0
NoPrint == request = 0 /\ format = 0 /\ va = 0 /\ buffer = 0 /\ idx = 0

LibraryInit ==
  \/ library = "string" /\ Init /\ NoTar /\ NoPrint /\ place = "idle" /\ result = 0
  \/ library = "tar" /\ Tar!Init /\ NoString /\ NoPrint
  \/ library = "print" /\ Printf!Init /\ NoString /\ NoTar

LibraryNext ==
  /\ UNCHANGED library
  /\ \/ library = "string" /\ Next /\ UNCHANGED <<tarVars, printVars, place, result>>
     \/ library = "tar" /\ Tar!Next /\ UNCHANGED <<vars, printVars>>
     \/ library = "print" /\ Printf!Next /\ UNCHANGED <<vars, tarVars>>

LibrarySpec == LibraryInit /\ [][LibraryNext]_libraryVars

(* The processor goes on with a function of string.c or with tar_lookup.   *)
FairLibrarySpec == LibrarySpec /\ WF_libraryVars(library # "print" /\ LibraryNext)

ASSUME LibraryAssumption ==
  StringAssumption /\ Tar!TarAssumption /\ Printf!SnprintfAssumption

-----------------------------------------------------------------------------

(* The first file of the name is found (fs/tarfs.c).                       *)
LookupRight == library = "tar" => Tar!LookupRight

(* snprintf prints what the C standard says (lib/snprintf.c).              *)
FormatRight == library = "print" => Printf!FormatRight

(* Messages with pointers show their arguments (lib/snprintf.c).           *)
PointersShown == library = "print" => Printf!PointersShown
=============================================================================
