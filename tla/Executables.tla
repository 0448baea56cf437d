---------------------------- MODULE Executables ----------------------------
(***************************************************************************)
(* foxasm writes the bytes of a program in one of three formats            *)
(* (executables.c).  An image is the fields written one after the other:   *)
(* each field is a value with the number of bytes it takes, so that the    *)
(* place of a field in the file is the size of those before it.  Fields    *)
(* that are always zero are one field.                                     *)
(***************************************************************************)
EXTENDS Integers, Sequences

Field(name, value, size) == [name |-> name, value |-> value, size |-> size]
Zeros(size) == Field("zeros", 0, size)

PlaceOf(image, k) ==
    LET sum[i \in 0 .. k] == IF i = 0 THEN 0 ELSE sum[i - 1] + image[i].size
    IN  sum[k]
FileSize(image) == PlaceOf(image, Len(image))

bin(code) == <<Field("code", code, Len(code))>>

fexec(code, entry_offset) ==
    <<Field("magic", "FEXE", 4), Field("version", 1, 1), Zeros(11),
      Field("entry", entry_offset, 8), Field("size", Len(code), 8)>> \o bin(code)

\* The structures of include/executables/macho64.h.
header_size == 32
load_command_size == 8
segment_size == 64
section64_size == 80
thread_state_size == 176

macho64(code, entry_offset) ==
    LET pagezero_size == load_command_size + segment_size
        text_size == load_command_size + segment_size + section64_size
        thread_size == load_command_size + thread_state_size
        sizeofcmds == pagezero_size + text_size + thread_size
        vmaddr == 4096
        filesize == header_size + sizeofcmds + Len(code)
        offset == header_size + sizeofcmds
        header == <<Field("magic", "feedfacf", 4), Field("type", "x86_64 executable", 12),
                    Field("ncmds", 3, 4), Field("sizeofcmds", sizeofcmds, 4), Field("flags", 1, 4), Zeros(4)>>
        pagezero == <<Field("cmd", 25, 4), Field("cmdsize", pagezero_size, 4),
                      Field("segname", "__PAGEZERO", 16), Field("vmaddr", 0, 8),
                      Field("vmsize", vmaddr, 8), Zeros(32)>>
        segment == <<Field("cmd", 25, 4), Field("cmdsize", text_size, 4),
                     Field("segname", "__TEXT", 16), Field("vmaddr", vmaddr, 8),
                     Field("vmsize", filesize, 8), Field("fileoff", 0, 8), Field("filesize", filesize, 8),
                     Field("prot", "RWX RX", 8), Field("nsects", 1, 4), Zeros(4)>>
        section == <<Field("sectname", "__text __TEXT", 32), Field("addr", vmaddr + offset, 8),
                     Field("size", Len(code), 8), Field("offset", offset, 4), Zeros(28)>>
        thread == <<Field("cmd", 5, 4), Field("cmdsize", thread_size, 4), Field("flavor", 4, 4),
                    Field("count", 42, 4), Zeros(128),
                    Field("rip", vmaddr + offset + entry_offset, 8), Zeros(32)>>
    IN  header \o pagezero \o segment \o section \o thread \o bin(code)
        \o (IF filesize < 4096 THEN <<Zeros(4096 - filesize)>> ELSE <<>>)

get_exec_type(name) == IF name \in {"bin", "fexec", "macho64"} THEN name ELSE "unknown"

write_exec(format, code, entry_offset) ==
    CASE get_exec_type(format) = "bin" -> bin(code)
      [] get_exec_type(format) = "fexec" -> fexec(code, entry_offset)
      [] get_exec_type(format) = "macho64" -> macho64(code, entry_offset)
      [] OTHER -> <<>>

(***************************************************************************)
(* A loader of such images.                                                *)
(***************************************************************************)
Indices(image, name) == { i \in DOMAIN image : image[i].name = name }
TheIndex(image, name) == CHOOSE i \in Indices(image, name) : TRUE
Offset(image, name) == PlaceOf(image, TheIndex(image, name) - 1)
Value(image, name) == image[TheIndex(image, name)].value

\* Every command takes the bytes its cmdsize says and the next follows it;
\* the commands take sizeofcmds bytes behind the header.
CommandsFit(image) ==
    LET sizes == Indices(image, "cmdsize")
        start(i) == PlaceOf(image, i - 2)
        end(i) == start(i) + image[i].value
        last == CHOOSE i \in sizes : \A j \in sizes : j <= i
    IN  /\ \A i \in sizes \ {last} : \E j \in sizes : start(j) = end(i)
        /\ \E i \in sizes : start(i) = header_size
        /\ end(last) = header_size + Value(image, "sizeofcmds")
        /\ Len(SelectSeq(image, LAMBDA f : f.name = "cmdsize")) = Value(image, "ncmds")

\* A loader finds the code, all of it and where the entry point is: fexec
\* says its size and where it starts behind a header of 32 bytes, macho64
\* where its section is in the file and in memory; the segment maps the file
\* from its start to the end of the code (executables.c).
LoaderFindsCode(format, code) ==
    LET image == write_exec(format, code, 0)
        at == Offset(image, "code")
    IN  /\ Value(image, "code") = code
        /\ CASE format = "bin" -> at = 0
             [] format = "fexec" -> /\ at + Value(image, "entry") = 32
                                    /\ Value(image, "size") = FileSize(image) - at
             [] format = "macho64" ->
                   /\ CommandsFit(image)
                   /\ Value(image, "offset") = at
                   /\ Value(image, "rip") = 4096 + at
                   /\ Value(image, "addr") = Value(image, "rip")
                   /\ at + Len(code) = Value(image, "filesize")
                   /\ FileSize(image) >= 4096
=============================================================================
